---- MODULE Spec2Model ----
(***************************************************************************)
(* Model of the per-frame state and scheduling core of svelte-luma:        *)
(* the LumaState container (state.svelte.ts), the matrix pool (math.ts),   *)
(* the Canvas component's device initialisation, render loop and teardown  *)
(* (Canvas.svelte), the texture owners (Texture.svelte, useTexture) and    *)
(* the Group / Mesh transform hierarchy.                                   *)
(*                                                                         *)
(* JavaScript is single-threaded: a handler runs to completion unless it   *)
(* calls user code.  render() calls user closures (the render callbacks    *)
(* and onframe), so it is split at exactly those calls; pc is its          *)
(* position.  Every other handler is one action.                           *)
(*                                                                         *)
(* Spec is the Canvas with its render loop.  SpecState drives the bare     *)
(* container through its methods, SpecPool and SpecShared the matrix pool, *)
(* SpecTexture a texture owner inside a Canvas, SpecGroup the Groups and   *)
(* a Mesh, SpecLights and SpecLightUpdate the light components and the     *)
(* light methods, SpecMouse the mouse handlers, SpecScene the cameras and  *)
(* SpecMath the matrix product.  All start from the same initial state.    *)
(***************************************************************************)
EXTENDS Integers, Sequences, FiniteSets, TLC

\* ------------------------------------------------------------------ bounds
MaxCallbacks == 3      \* registry entries alive at once
MaxSymbols   == 3      \* Symbol('render-callback') tokens issued in a run
MaxTime      == 2      \* largest animation-frame timestamp
MaxFrames    == 2      \* frames rendered in a run
MaxAcquire   == 1      \* matrices acquired from the pool between resets
MaxGroups    == 2      \* Group components created in a run
MaxMoves     == 1      \* position props of Groups and of the Mesh changed in a run
MaxCameras   == 2      \* Scene and OrbitCamera components created in a run

GroupIds == 1..MaxGroups
CameraIds == 1..MaxCameras

\* -------------------------------------------------------- program constants
OPAQUE      == 100
TRANSPARENT == 200
poolSize    == 64

\* the render layers callbacks are registered with
Priorities == {OPAQUE, TRANSPARENT}

\* the components and hooks that register a render callback
OwnerIds   == {1, 2}
OwnerKinds == {"Mesh", "Model", "RenderLoop", "useRender"}
NoOwner    == [kind |-> "none", phase |-> "absent", callbackId |-> 0, renderOrder |-> 0]

\* type Backend
Backends == {"webgl", "webgpu", "best"}

\* Canvas before onMount ran
NoBoot == [phase |-> "new", backend |-> "best", hasOnerror |-> FALSE, tried |-> <<>>,
           outcome |-> "none", onerrorCalls |-> 0, children |-> FALSE]

\* tokens a caller may hand to removeRenderCallback: the symbols issued so
\* far, and 0 for a Symbol that addRenderCallback never returned
Tokens(sc) == 0..sc

VARIABLES
    device,           \* LumaState.device: "null" or "device"
    ready,            \* LumaState.ready
    error,            \* LumaState.error: "null" or "error"
    frame,            \* LumaState.frame {time, deltaTime, frameCount}
    lastTime,         \* LumaState.lastTime
    renderCallbacks,  \* LumaState.renderCallbacks, in registration order
    sortedCallbacks,  \* LumaState.sortedCallbacks, the cached sorted view
    needsSort,        \* LumaState.needsSort
    symbolCount,      \* number of Symbol('render-callback') created so far
    poolIndex,        \* MatrixPool.index
    creating,         \* Canvas onMount is awaiting createDeviceInternal
    mounted,          \* the Canvas component has not run onDestroy
    rafPending,       \* an animation frame for render is requested
    pc,               \* position of the running render(): idle, iterate, return, uncaught
    time,             \* the parameter of the running render()
    iter,             \* the array the for-of of executeRenderCallbacks walks
    idx,              \* 1-based position of that for-of
    callStart,        \* history: the registry and symbolCount when executeRenderCallbacks began
    log,              \* history: what the running render() has done, in order
    ticks,            \* history: updateFrame calls since construction or resetFrame
    prevTick,         \* history: time of the previous updateFrame since then, else 0
    last,             \* history: the operation that ran last
    lights,           \* LumaState.lights: the Map's entries, in insertion order
    gpu,              \* the Device object: "none" before it exists, "live", "destroyed"
    pool,             \* MatrixPool.pool.length: slot k is the k-th Float32Array made
    acquired,         \* history: the slots acquire() returned since the last reset()
    held,             \* history: per Canvas, the slots handed to it since its last tick
    texOwner,         \* the texture owner mounted in the Canvas: none, Texture, useTexture
    texPc,            \* position of its async onMount: unmounted, loading, done
    texAlive,         \* the owner is mounted and has not run onDestroy
    texDevice,        \* the device its onMount captured
    texture,          \* its texture slot: null, texture, or destroyed (a destroyed Texture)
    texLoading,       \* useTexture's loading
    texError,         \* useTexture's error
    texLast,          \* history: how the image load settled and what the completion did
    parentTransform,  \* LumaState.parentTransform: 0 for null, else the Group whose
                      \* worldMatrix array it refers to
    grp,              \* the Group components: phase, place in the tree, props, fields
    leaf,             \* a Mesh placed directly inside a Group
    moves,            \* position props changed so far
    viewport,         \* LumaState.viewport {width, height, aspect}
    mouse,            \* LumaState.mouse
    scene,            \* LumaState.scene: owner 0 for null, else what setScene stored
    cam,              \* the Scene and OrbitCamera components: kind, phase, camera position
    calc,             \* history: the last call of a function of math.ts and its result
    issued,           \* history: per addRenderCallback call, the token returned and the
                      \* closure registered
    comp,             \* the components and hooks that register a render callback:
                      \* kind, phase, callbackId (0 for null), renderOrder
    boot              \* Canvas onMount: the backend and onerror props, the adapters
                      \* createDeviceInternal tried, how it settled, and history:
                      \* calls of onerror, whether the children block was rendered

poolVars == <<pool, acquired, held>>
texVars  == <<texOwner, texPc, texAlive, texDevice, texture, texLoading, texError, texLast>>

groupVars == <<parentTransform, grp, leaf, moves>>

uiVars    == <<viewport, mouse>>
sceneVars == <<scene, cam>>
regVars   == <<issued, comp, boot>>
moreVars  == <<uiVars, sceneVars, calc, regVars>>

\* the state of the modules and components around the container
extVars == <<poolVars, texVars, groupVars, moreVars>>

auxVars == <<lights, gpu, extVars>>

vars == <<device, ready, error, frame, lastTime, renderCallbacks, sortedCallbacks,
          needsSort, symbolCount, poolIndex, creating, mounted, rafPending, pc, time,
          iter, idx, callStart, log, ticks, prevTick, last, auxVars>>

deviceVars == <<device, ready, error>>
frameVars  == <<frame, lastTime, ticks, prevTick>>
schedVars  == <<renderCallbacks, sortedCallbacks, needsSort, symbolCount>>
canvasVars == <<creating, mounted>>
tickVars   == <<pc, time, iter, idx, callStart, log>>

\* ----------------------------------------------------------------- helpers
Ids(s) == {s[i].id : i \in 1..Len(s)}

IdSeq(s) == [i \in 1..Len(s) |-> s[i].id]

ZeroFrame == [time |-> 0, deltaTime |-> 0, frameCount |-> 0]

NoCall == [registry |-> <<>>, symbolCount |-> 0]

\* history record of an operation: hit tells whether it took effect;
\* afterReset marks a render() that directly follows a resetFrame() of a
\* container that had rendered frames
Op(name, arg, hit) == [op |-> name, arg |-> arg, hit |-> hit, afterReset |-> FALSE]

\* ------------------------------------------------------- LumaState methods
\* variant: lastTime is not stored
updateFrameStaleLastTime(t, f, lt) ==
    [frame |-> [time |-> t, deltaTime |-> t - lt, frameCount |-> f.frameCount + 1],
     lastTime |-> lt]

\* updateFrame(time): the new frame and lastTime
updateFrame(t, f, lt) ==
    [frame |-> [time |-> t, deltaTime |-> t - lt, frameCount |-> f.frameCount + 1],
     lastTime |-> t]

\* [...arr].sort((a, b) => a.priority - b.priority): Array.prototype.sort is
\* stable, so an element goes after every element that does not compare
\* greater than it.
\* variant: the element goes before the elements it compares equal to
RECURSIVE insertByPriorityUnstable(_, _)
insertByPriorityUnstable(cb, s) ==
    IF s = <<>> THEN <<cb>>
    ELSE IF s[1].priority - cb.priority < 0
         THEN <<s[1]>> \o insertByPriorityUnstable(cb, Tail(s))
         ELSE <<cb>> \o s

RECURSIVE insertByPriority(_, _)
insertByPriority(cb, s) ==
    IF s = <<>> THEN <<cb>>
    ELSE IF s[1].priority - cb.priority <= 0
         THEN <<s[1]>> \o insertByPriority(cb, Tail(s))
         ELSE <<cb>> \o s

RECURSIVE sortCallbacks(_)
sortCallbacks(arr) ==
    IF arr = <<>> THEN <<>>
    ELSE insertByPriority(arr[Len(arr)], sortCallbacks(SubSeq(arr, 1, Len(arr) - 1)))

\* renderCallbacks.findIndex(cb => cb.id === id): 0 stands for -1
findIndex(arr, id) ==
    IF id \in Ids(arr) THEN CHOOSE i \in 1..Len(arr) : arr[i].id = id ELSE 0

\* arr.splice(index, 1)
splice(arr, index) ==
    [i \in 1..(Len(arr) - 1) |-> IF i < index THEN arr[i] ELSE arr[i + 1]]

\* variant: the token is the position of the new entry, not a new Symbol
addRenderCallbackIndexToken(reg, ns, sc, p) ==
    [renderCallbacks |-> Append(reg, [id |-> Len(reg) + 1, priority |-> p]),
     needsSort |-> TRUE,
     symbolCount |-> sc + 1]

\* variant: the push does not mark the sorted view stale
addRenderCallbackNoFlag(reg, ns, sc, p) ==
    [renderCallbacks |-> Append(reg, [id |-> sc + 1, priority |-> p]),
     needsSort |-> ns,
     symbolCount |-> sc + 1]

\* addRenderCallback(callback, priority): registry, flag and symbol count after
addRenderCallback(reg, ns, sc, p) ==
    [renderCallbacks |-> Append(reg, [id |-> sc + 1, priority |-> p]),
     needsSort |-> TRUE,
     symbolCount |-> sc + 1]

\* variant: lastTime keeps its value
resetFrameKeepsLastTime == [frame |-> ZeroFrame, lastTime |-> lastTime]

\* resetFrame(): the frame and lastTime after
resetFrame == [frame |-> ZeroFrame, lastTime |-> 0]

\* variant: the splice does not mark the sorted view stale
removeRenderCallbackNoFlag(reg, ns, id) ==
    LET index == findIndex(reg, id) IN
    IF index # 0
    THEN [renderCallbacks |-> splice(reg, index), needsSort |-> ns]
    ELSE [renderCallbacks |-> reg, needsSort |-> ns]

\* variant: no test of the index, so splice(-1, 1) removes the last entry
removeRenderCallbackUnguarded(reg, ns, id) ==
    LET index == findIndex(reg, id) IN
    IF reg = <<>> THEN [renderCallbacks |-> reg, needsSort |-> TRUE]
    ELSE [renderCallbacks |-> splice(reg, IF index # 0 THEN index ELSE Len(reg)),
          needsSort |-> TRUE]

\* removeRenderCallback(id): registry and flag after
removeRenderCallback(reg, ns, id) ==
    LET index == findIndex(reg, id) IN
    IF index # 0
    THEN [renderCallbacks |-> splice(reg, index), needsSort |-> TRUE]
    ELSE [renderCallbacks |-> reg, needsSort |-> ns]

\* variant: the view is rebuilt as a copy of the registry, without the sort
refreshSortedNoSort(reg, sorted, ns) ==
    IF ns THEN reg ELSE sorted

\* the sort step of executeRenderCallbacks: the view the for-of then walks
refreshSorted(reg, sorted, ns) ==
    IF ns THEN sortCallbacks(reg) ELSE sorted

\* variant: ready is left as it is
destroyKeepsReady(dev) ==
    [device |-> "null", ready |-> ready, renderCallbacks |-> <<>>, sortedCallbacks |-> <<>>,
     lights |-> <<>>, released |-> dev # "null"]

\* variant: the lights are left in the Map
destroyKeepsLights(dev) ==
    [device |-> "null", ready |-> FALSE, renderCallbacks |-> <<>>, sortedCallbacks |-> <<>>,
     lights |-> lights, released |-> dev # "null"]

\* destroy(): device, ready, the two callback arrays and the lights after;
\* released tells whether device.destroy() was called; needsSort, error and
\* the frame are not touched
destroy(dev) ==
    [device |-> "null", ready |-> FALSE, renderCallbacks |-> <<>>, sortedCallbacks |-> <<>>,
     lights |-> <<>>, released |-> dev # "null"]

\* ------------------------------------------------------------ Canvas.render
Ev(name, arg) == [ev |-> name, arg |-> arg]

\* variant: no guard
renderNeverSkips(dev, rdy) == FALSE

\* the guard of render(): if (!lumaState.device || !lumaState.ready) return
renderSkips(dev, rdy) == dev = "null" \/ ~rdy

\* variant: the pool is not reset
renderPrologueNoReset(t, f, lt, pi, clear) ==
    LET u == updateFrame(t, f, lt) IN
    [poolIndex |-> pi,
     frame |-> u.frame,
     lastTime |-> u.lastTime,
     log |-> <<Ev("updateFrame", t)>>
             \o (IF clear THEN <<Ev("beginRenderPass", 0)>> ELSE <<>>)]

\* variant: the reset leaves the allocation index where it is
renderPrologueStaleIndex(t, f, lt, pi, clear) ==
    LET u == updateFrame(t, f, lt) IN
    [poolIndex |-> pi,
     frame |-> u.frame,
     lastTime |-> u.lastTime,
     log |-> <<Ev("resetMatrixPool", 0), Ev("updateFrame", t)>>
             \o (IF clear THEN <<Ev("beginRenderPass", 0)>> ELSE <<>>)]

\* render() from its guard to the call of executeRenderCallbacks:
\* resetMatrixPool(), updateFrame(time), then the auto-clear render pass
renderPrologue(t, f, lt, pi, clear) ==
    LET u == updateFrame(t, f, lt) IN
    [poolIndex |-> 0,
     frame |-> u.frame,
     lastTime |-> u.lastTime,
     log |-> <<Ev("resetMatrixPool", 0), Ev("updateFrame", t)>>
             \o (IF clear THEN <<Ev("beginRenderPass", 0)>> ELSE <<>>)]

\* the object render() hands to onframe
onframeContext(t, f, dev) == [time |-> t, deltaTime |-> f.deltaTime, device |-> dev]

\* ------------------------------------------------------------- MatrixPool
\* a slot is a Float32Array(16), named by the order of its creation; slots
\* are only ever appended to the backing store, so the store is the slots
\* 1..pool.  The constructor makes poolSize slots.
NewPool == poolSize

\* the Canvas components of one page: they import the same math module
Canvases == {1, 2}

\* variant: the allocation index is not advanced
acquireNoAdvance(pl, ix) ==
    LET grown == IF ix >= pl THEN pl + 1 ELSE pl IN
    [pool |-> grown, index |-> ix, slot |-> ix + 1]

\* acquire(): the backing store, the index and the slot returned: a push
\* when index has reached pool.length, then pool[index++] (the code's index
\* counts from 0, so pool[index] is slot index + 1)
acquire(pl, ix) ==
    LET grown == IF ix >= pl THEN pl + 1 ELSE pl IN
    [pool |-> grown, index |-> ix + 1, slot |-> ix + 1]

\* reset(): the index after
reset == 0

\* history record of an image load: how it settled, whether owner and
\* Canvas were both mounted then, whether device.createTexture returned a
\* texture and whether the device had been destroyed by then, how many user
\* handlers ran, and whether a rejection was left unhandled
NoLoad == [settled |-> "none", live |-> FALSE, created |-> FALSE, released |-> FALSE,
           calls |-> 0, unhandled |-> FALSE]

\* ------------------------------------------------------------ matrices
\* a Float32Array(16), column-major, indexed from 0 as in the code
Float32Array(t) ==
    (0 :> t[1]) @@ (1 :> t[2]) @@ (2 :> t[3]) @@ (3 :> t[4]) @@
    (4 :> t[5]) @@ (5 :> t[6]) @@ (6 :> t[7]) @@ (7 :> t[8]) @@
    (8 :> t[9]) @@ (9 :> t[10]) @@ (10 :> t[11]) @@ (11 :> t[12]) @@
    (12 :> t[13]) @@ (13 :> t[14]) @@ (14 :> t[15]) @@ (15 :> t[16])

\* new Float32Array(16): all zero
Zero16 == Float32Array([i \in 1..16 |-> 0])

\* Math.cos and Math.sin at the angles used: whole quarter turns
Cos(q) == CASE q % 4 = 0 -> 1 [] q % 4 = 1 -> 0 [] q % 4 = 2 -> -1 [] OTHER -> 0
Sin(q) == CASE q % 4 = 0 -> 0 [] q % 4 = 1 -> 1 [] q % 4 = 2 -> 0 [] OTHER -> -1

\* mat4Compose that stores the position in the fourth row
mat4ComposeRowMajor(position, rotation, scale) ==
    LET px == position[1]  py == position[2]  pz == position[3]
        sx == scale[1]     sy == scale[2]     sz == scale[3]
        cx == Cos(rotation[1])  sx_ == Sin(rotation[1])
        cy == Cos(rotation[2])  sy_ == Sin(rotation[2])
        cz == Cos(rotation[3])  sz_ == Sin(rotation[3])
        m  == << cy * cz * sx, cy * sz_ * sx, (-sy_) * sx, px,
                 (sx_ * sy_ * cz - cx * sz_) * sy, (sx_ * sy_ * sz_ + cx * cz) * sy,
                     sx_ * cy * sy, py,
                 (cx * sy_ * cz + sx_ * sz_) * sz, (cx * sy_ * sz_ - sx_ * cz) * sz,
                     cx * cy * sz, pz,
                 0, 0, 0, 1 >> IN
    Float32Array(m)

\* mat4Translation(x, y, z)
mat4Translation(x, y, z) ==
    Float32Array(<< 1, 0, 0, 0,
                    0, 1, 0, 0,
                    0, 0, 1, 0,
                    x, y, z, 1 >>)

\* mat4Compose(position, rotation, scale)
mat4Compose(position, rotation, scale) ==
    LET px == position[1]  py == position[2]  pz == position[3]
        sx == scale[1]     sy == scale[2]     sz == scale[3]
        cx == Cos(rotation[1])  sx_ == Sin(rotation[1])
        cy == Cos(rotation[2])  sy_ == Sin(rotation[2])
        cz == Cos(rotation[3])  sz_ == Sin(rotation[3])
        m  == << cy * cz * sx, cy * sz_ * sx, (-sy_) * sx, 0,
                 (sx_ * sy_ * cz - cx * sz_) * sy, (sx_ * sy_ * sz_ + cx * cz) * sy,
                     sx_ * cy * sy, 0,
                 (cx * sy_ * cz + sx_ * sz_) * sz, (cx * sy_ * sz_ - sx_ * cz) * sz,
                     cx * cy * sz, 0,
                 px, py, pz, 1 >> IN
    Float32Array(m)

\* mat4Multiply with the roles of a and b exchanged
mat4MultiplySwapped(a, b) ==
    Float32Array([k \in 1..16 |->
        LET c == 4 * ((k - 1) \div 4)
            r == (k - 1) % 4 IN
        a[c] * b[r] + a[c + 1] * b[4 + r] + a[c + 2] * b[8 + r] + a[c + 3] * b[12 + r]])

\* mat4Multiply(a, b): column c of the result is a applied to column c of b
mat4Multiply(a, b) ==
    Float32Array([k \in 1..16 |->
        LET c == 4 * ((k - 1) \div 4)
            r == (k - 1) % 4 IN
        b[c] * a[r] + b[c + 1] * a[4 + r] + b[c + 2] * a[8 + r] + b[c + 3] * a[12 + r]])

\* ------------------------------------------------------- Group and Mesh
\* a Group, and a Mesh, that does not exist yet: it has no fields
NoGroup == [phase |-> "absent"]
NoLeaf  == [phase |-> "absent"]

\* ------------------------------------------------------------- numbers
\* a number that is not whole is kept as a fraction n/d in lowest terms, d > 0
RECURSIVE Gcd(_, _)
Gcd(a, b) == IF b = 0 THEN a ELSE Gcd(b, a % b)

Abs(x) == IF x < 0 THEN -x ELSE x

Frac(n, d) ==
    LET g == Gcd(Abs(n), Abs(d))
        sgn == IF d < 0 THEN -1 ELSE 1 IN
    [n |-> sgn * (n \div g), d |-> sgn * (d \div g)]

Whole(k) == [n |-> k, d |-> 1]

Plus(x, y)   == Frac(x.n * y.d + y.n * x.d, x.d * y.d)
Minus(x, y)  == Frac(x.n * y.d - y.n * x.d, x.d * y.d)
Mul(x, y)    == Frac(x.n * y.n, x.d * y.d)
Over(x, y)   == Frac(x.n * y.d, x.d * y.n)
Neg(x)       == [n |-> -x.n, d |-> x.d]

\* ----------------------------------------------- mouse, scene and cameras
\* LumaState.mouse as constructed
NoMouse == [x |-> 0, y |-> 0, normalizedX |-> Whole(0), normalizedY |-> Whole(0),
            buttons |-> 0, isOver |-> FALSE, isDragging |-> FALSE]

\* LumaState.scene when it is null
NoScene == [owner |-> 0]

\* a Scene or OrbitCamera component that does not exist yet
NoCamera == [phase |-> "absent"]

\* no function of math.ts was called yet
NoCalc == [op |-> "none"]

\* -------------------------------------------------------------------- Init
Init ==
    /\ device = "null" /\ ready = FALSE /\ error = "null"
    /\ frame = ZeroFrame /\ lastTime = 0
    /\ renderCallbacks = <<>> /\ sortedCallbacks = <<>> /\ needsSort = FALSE
    /\ symbolCount = 0
    /\ poolIndex = 0
    /\ creating = TRUE /\ mounted = TRUE /\ rafPending = FALSE
    /\ pc = "idle" /\ time = 0 /\ iter = <<>> /\ idx = 0
    /\ callStart = NoCall /\ log = <<>>
    /\ ticks = 0 /\ prevTick = 0
    /\ last = Op("new", 0, TRUE)
    /\ lights = <<>> /\ gpu = "none"
    /\ pool = NewPool /\ acquired = <<>> /\ held = [c \in Canvases |-> {}]
    /\ texOwner = "none" /\ texPc = "unmounted" /\ texAlive = FALSE /\ texDevice = "null"
    /\ texture = "null" /\ texLoading = FALSE /\ texError = "null" /\ texLast = NoLoad
    /\ parentTransform = 0 /\ grp = [g \in GroupIds |-> NoGroup] /\ leaf = NoLeaf
    /\ moves = 0
    /\ viewport = [width |-> 800, height |-> 600, aspect |-> Frac(800, 600)]
    /\ mouse = NoMouse
    /\ scene = NoScene /\ cam = [c \in CameraIds |-> NoCamera]
    /\ calc = NoCalc /\ issued = <<>>
    /\ comp = [o \in OwnerIds |-> NoOwner]
    /\ boot = NoBoot

\* ------------------------------------------------- Canvas onMount / onDestroy
\* createDeviceInternal resolved: setDevice, setViewport, ondevicecreated,
\* requestAnimationFrame(render)
DeviceCreated ==
    /\ pc = "idle" /\ creating
    /\ creating' = FALSE
    /\ device' = "device" /\ ready' = TRUE
    /\ rafPending' = TRUE
    /\ last' = Op("setDevice", 0, TRUE)
    /\ gpu' = "live"
    /\ UNCHANGED <<error, mounted, frameVars, schedVars, poolIndex, tickVars, lights, extVars>>

\* createDeviceInternal resolved but ondevicecreated threw: the catch block
\* runs setError and no frame is requested
DeviceCreatedHandlerThrows ==
    /\ pc = "idle" /\ creating
    /\ creating' = FALSE
    /\ device' = "device" /\ ready' = FALSE /\ error' = "error"
    /\ last' = Op("setError", 0, TRUE)
    /\ gpu' = "live"
    /\ UNCHANGED <<mounted, rafPending, frameVars, schedVars, poolIndex, tickVars, lights,
                   extVars>>

\* createDeviceInternal rejected: setError, onerror
DeviceFailed ==
    /\ pc = "idle" /\ creating
    /\ creating' = FALSE
    /\ error' = "error" /\ ready' = FALSE
    /\ last' = Op("setError", 0, FALSE)
    /\ UNCHANGED <<device, mounted, rafPending, frameVars, schedVars, poolIndex, tickVars>>
    /\ UNCHANGED auxVars

\* onDestroy: cancelAnimationFrame(animationFrameId), lumaState.destroy()
OnDestroy ==
    /\ pc = "idle" /\ mounted
    /\ mounted' = FALSE
    /\ rafPending' = FALSE
    /\ LET d == destroy(device) IN
        /\ device' = d.device /\ ready' = d.ready
        /\ renderCallbacks' = d.renderCallbacks /\ sortedCallbacks' = d.sortedCallbacks
        /\ lights' = d.lights
        /\ gpu' = IF d.released THEN "destroyed" ELSE gpu
    /\ last' = Op("destroy", 0, TRUE)
    /\ UNCHANGED <<error, creating, needsSort, symbolCount, frameVars, poolIndex, tickVars,
                   extVars>>

\* ------------------------------------------- LumaState API used between frames
\* a child component's onMount registers its callback; Canvas renders its
\* children only while lumaState.ready
AddRenderCallback(p) ==
    /\ pc = "idle"
    /\ ready /\ mounted
    /\ Len(renderCallbacks) < MaxCallbacks /\ symbolCount < MaxSymbols
    /\ LET a == addRenderCallback(renderCallbacks, needsSort, symbolCount, p) IN
        /\ renderCallbacks' = a.renderCallbacks
        /\ needsSort' = a.needsSort
        /\ symbolCount' = a.symbolCount
        /\ last' = Op("addRenderCallback", a.symbolCount, TRUE)
    /\ UNCHANGED <<deviceVars, sortedCallbacks, frameVars, poolIndex, canvasVars,
                   rafPending, tickVars>>
    /\ UNCHANGED auxVars

RemoveRenderCallback(id) ==
    /\ pc = "idle"
    /\ LET r == removeRenderCallback(renderCallbacks, needsSort, id) IN
        /\ renderCallbacks' = r.renderCallbacks
        /\ needsSort' = r.needsSort
        /\ last' = Op("removeRenderCallback", id, id \in Ids(renderCallbacks))
    /\ UNCHANGED <<deviceVars, sortedCallbacks, symbolCount, frameVars, poolIndex,
                   canvasVars, rafPending, tickVars>>
    /\ UNCHANGED auxVars

ResetFrame ==
    /\ pc = "idle"
    /\ lastTime' = resetFrame.lastTime /\ frame' = resetFrame.frame
    /\ ticks' = 0 /\ prevTick' = 0
    /\ last' = Op("resetFrame", frame.frameCount, TRUE)
    /\ UNCHANGED <<deviceVars, schedVars, poolIndex, canvasVars, rafPending, tickVars>>
    /\ UNCHANGED auxVars

\* ----------------------------------------------------------- Canvas.render
\* render(time) with no device or not ready: returns at its guard
RenderSkipped(t) ==
    /\ pc = "idle" /\ rafPending
    /\ renderSkips(device, ready)
    /\ rafPending' = FALSE
    /\ last' = Op("render", t, FALSE)
    /\ UNCHANGED <<deviceVars, frameVars, schedVars, poolIndex, canvasVars, tickVars>>
    /\ UNCHANGED auxVars

\* render(time) from its guard up to the first callback of
\* executeRenderCallbacks: pool reset, updateFrame, auto-clear, the re-sort
RenderBegin(t, clear) ==
    /\ pc = "idle" /\ rafPending
    /\ ~renderSkips(device, ready)
    /\ frame.frameCount < MaxFrames
    /\ rafPending' = FALSE
    /\ LET p == renderPrologue(t, frame, lastTime, poolIndex, clear)
           view == refreshSorted(renderCallbacks, sortedCallbacks, needsSort) IN
        /\ poolIndex' = p.poolIndex
        /\ frame' = p.frame
        /\ lastTime' = p.lastTime
        /\ sortedCallbacks' = view
        /\ needsSort' = FALSE
        /\ iter' = view /\ idx' = 1
        /\ log' = Append(p.log, Ev("executeRenderCallbacks", 0))
    /\ pc' = "iterate" /\ time' = t
    /\ callStart' = [registry |-> renderCallbacks, symbolCount |-> symbolCount]
    /\ ticks' = ticks + 1 /\ prevTick' = t
    /\ last' = [Op("render", t, TRUE) EXCEPT
                    !.afterReset = (last.op = "resetFrame" /\ last.arg > 0)]
    /\ UNCHANGED <<deviceVars, renderCallbacks, symbolCount, canvasVars>>
    /\ UNCHANGED auxVars

\* the for-of is at a callback it has yet to call
AtCallback == pc = "iterate" /\ idx <= Len(iter)

\* history: callback() is called; registered tells whether its entry was
\* still in renderCallbacks at that moment
CallbackEv == Ev("callback", [id |-> iter[idx].id,
                              registered |-> iter[idx].id \in Ids(renderCallbacks)])

\* the call of callback() returned: the for-of moves on
Called ==
    /\ log' = Append(log, CallbackEv)
    /\ idx' = idx + 1
    /\ UNCHANGED <<pc, time, iter, callStart, canvasVars, rafPending, frameVars, last>>

\* a callback that touches no container state
InvokePlain ==
    /\ AtCallback
    /\ Called
    /\ UNCHANGED <<deviceVars, schedVars, poolIndex>>
    /\ UNCHANGED auxVars

\* a callback that acquires a matrix from the pool
InvokeAcquire ==
    /\ AtCallback
    /\ poolIndex < MaxAcquire
    /\ poolIndex' = poolIndex + 1
    /\ Called
    /\ UNCHANGED <<deviceVars, schedVars>>
    /\ UNCHANGED auxVars

\* a callback that registers another callback
InvokeAdd(p) ==
    /\ AtCallback
    /\ Len(renderCallbacks) < MaxCallbacks /\ symbolCount < MaxSymbols
    /\ LET a == addRenderCallback(renderCallbacks, needsSort, symbolCount, p) IN
        /\ renderCallbacks' = a.renderCallbacks
        /\ needsSort' = a.needsSort
        /\ symbolCount' = a.symbolCount
        /\ Called
    /\ UNCHANGED <<deviceVars, sortedCallbacks, poolIndex>>
    /\ UNCHANGED auxVars

\* a callback that unregisters a callback (possibly itself)
InvokeRemove(id) ==
    /\ AtCallback
    /\ LET r == removeRenderCallback(renderCallbacks, needsSort, id) IN
        /\ renderCallbacks' = r.renderCallbacks
        /\ needsSort' = r.needsSort
        /\ Called
    /\ UNCHANGED <<deviceVars, sortedCallbacks, symbolCount, poolIndex>>
    /\ UNCHANGED auxVars

\* a callback that calls lumaState.destroy()
InvokeDestroy ==
    /\ AtCallback
    /\ LET d == destroy(device) IN
        /\ device' = d.device /\ ready' = d.ready
        /\ renderCallbacks' = d.renderCallbacks /\ sortedCallbacks' = d.sortedCallbacks
        /\ lights' = d.lights
        /\ gpu' = IF d.released THEN "destroyed" ELSE gpu
    /\ Called
    /\ UNCHANGED <<error, needsSort, symbolCount, poolIndex, extVars>>

\* a callback that throws: nothing in executeRenderCallbacks or render
\* catches, so both are left at once
InvokeThrow ==
    /\ AtCallback
    /\ log' = Append(log, CallbackEv) \o <<Ev("throw", "callback")>>
    /\ pc' = "uncaught"
    /\ UNCHANGED <<deviceVars, frameVars, schedVars, poolIndex, canvasVars, rafPending,
                   time, iter, idx, callStart, last>>
    /\ UNCHANGED auxVars

\* the for-of is through
LoopDone == pc = "iterate" /\ idx > Len(iter)

\* after executeRenderCallbacks: onframe if given and a device is set, then
\* requestAnimationFrame(render)
RenderEnd(hasOnframe) ==
    /\ LoopDone
    /\ log' = IF hasOnframe /\ device # "null"
              THEN Append(log, Ev("onframe", onframeContext(time, frame, device)))
              ELSE log
    /\ rafPending' = TRUE
    /\ pc' = "return"
    /\ UNCHANGED <<deviceVars, frameVars, schedVars, poolIndex, canvasVars,
                   time, iter, idx, callStart, last>>
    /\ UNCHANGED auxVars

\* onframe throws: render is left before requestAnimationFrame
OnframeThrows ==
    /\ LoopDone
    /\ device # "null"
    /\ log' = Append(log, Ev("onframe", onframeContext(time, frame, device)))
              \o <<Ev("throw", "onframe")>>
    /\ pc' = "uncaught"
    /\ UNCHANGED <<deviceVars, frameVars, schedVars, poolIndex, canvasVars, rafPending,
                   time, iter, idx, callStart, last>>
    /\ UNCHANGED auxVars

\* render has returned to, or thrown into, the frame dispatcher
Return ==
    /\ pc \in {"return", "uncaught"}
    /\ pc' = "idle" /\ time' = 0 /\ iter' = <<>> /\ idx' = 0
    /\ callStart' = NoCall /\ log' = <<>>
    /\ last' = IF pc = "return" THEN last ELSE Op("uncaught", last.arg, FALSE)
    /\ UNCHANGED <<deviceVars, frameVars, schedVars, poolIndex, canvasVars, rafPending>>
    /\ UNCHANGED auxVars

\* -------------------------------------------------------------------- Next
\* animation-frame timestamps grow from frame to frame
Times == {t \in 1..MaxTime : t > lastTime}

Next ==
    \/ DeviceCreated
    \/ DeviceCreatedHandlerThrows
    \/ DeviceFailed
    \/ OnDestroy
    \/ \E p \in Priorities : AddRenderCallback(p)
    \/ \E id \in Tokens(symbolCount) : RemoveRenderCallback(id)
    \/ ResetFrame
    \/ \E t \in Times : RenderSkipped(t)
    \/ \E t \in Times, clear \in BOOLEAN : RenderBegin(t, clear)
    \/ InvokePlain
    \/ InvokeAcquire
    \/ \E p \in Priorities : InvokeAdd(p)
    \/ \E id \in Tokens(symbolCount) : InvokeRemove(id)
    \/ InvokeDestroy
    \/ InvokeThrow
    \/ \E hasOnframe \in BOOLEAN : RenderEnd(hasOnframe)
    \/ OnframeThrows
    \/ Return

Spec == Init /\ [][Next]_vars

\* ---------------------------------------------------------- history views
\* the callbacks the running render() has called so far, in order
CallbackEvents == SelectSeq(log, LAMBDA e : e.ev = "callback")

Invoked == [i \in 1..Len(CallbackEvents) |-> CallbackEvents[i].arg.id]

InvokedIds == {Invoked[i] : i \in 1..Len(Invoked)}

\* executeRenderCallbacks ran through all of its for-of
CallComplete == LoopDone \/ pc = "return"

\* position of the entry with this id in a registry
PosOf(reg, id) == CHOOSE k \in 1..Len(reg) : reg[k].id = id

\* entry a comes before entry b: lower priority first, and among equal
\* priorities the one registered first
Before(reg, a, b) ==
    LET i == PosOf(reg, a)
        j == PosOf(reg, b) IN
    \/ reg[i].priority < reg[j].priority
    \/ reg[i].priority = reg[j].priority /\ i < j

PrioritySeq(reg) == [i \in 1..Len(reg) |-> reg[i].priority]

\* ------------------------------------------------------------------ claims
\* C1: one executeRenderCallbacks call invokes the callbacks registered when
\* it began, each exactly once, in ascending priority order, and those of
\* equal priority in registration order; a call that is not cut short by a
\* throw invokes all of them.
C1_PriorityOrder ==
    pc # "idle" =>
        LET reg == callStart.registry
            inv == Invoked
            ids == {inv[i] : i \in 1..Len(inv)} IN
        /\ ids \subseteq Ids(reg)
        /\ \A i, j \in 1..Len(inv) : i < j => Before(reg, inv[i], inv[j])
        /\ \A id \in Ids(reg) \ ids : \A i \in 1..Len(inv) : Before(reg, inv[i], id)
        /\ CallComplete => ids = Ids(reg)

\* priorities registered as [200, 100, 100] have run as second, third, first
C1_Witness ==
    /\ CallComplete
    /\ PrioritySeq(callStart.registry) = <<TRANSPARENT, OPAQUE, OPAQUE>>
    /\ Invoked = <<callStart.registry[2].id, callStart.registry[3].id,
                   callStart.registry[1].id>>

\* C2: registering or unregistering from inside a callback does not change
\* what the running executeRenderCallbacks call invokes: a callback
\* registered during the call is not invoked in it, one unregistered during
\* the call is still invoked, and the walk of every call is the registry as
\* it stood when that call began.
C2_SnapshotFixed ==
    pc # "idle" =>
        LET ids == InvokedIds IN
        /\ \A id \in ids : id <= callStart.symbolCount
        /\ Ids(iter) = Ids(callStart.registry)
        /\ CallComplete => Ids(callStart.registry) \ Ids(renderCallbacks) \subseteq ids

\* a call is through in which one callback was invoked after another had
\* unregistered it, and a callback registered during the call was not invoked
C2_Witness ==
    /\ CallComplete
    /\ device = "device"
    /\ \E i \in 1..Len(CallbackEvents) : ~CallbackEvents[i].arg.registered
    /\ \E id \in Ids(renderCallbacks) : id > callStart.symbolCount /\ id \notin InvokedIds

\* C3: a callback unregistered before an executeRenderCallbacks call begins
\* is not invoked by that call (nor is it in its walk), while every callback
\* registered at that moment is invoked.
C3_UnregisteredNotInvoked ==
    pc # "idle" =>
        LET ids == InvokedIds
            gone == (1..callStart.symbolCount) \ Ids(callStart.registry) IN
        /\ gone \cap (ids \cup Ids(iter)) = {}
        /\ CallComplete => Ids(callStart.registry) \subseteq ids

\* a call is through that began after a token was unregistered (no destroy
\* has run: the component is mounted and the device set) and that invoked
\* the other callbacks
C3_Witness ==
    /\ CallComplete
    /\ mounted /\ device = "device"
    /\ \E id \in 1..callStart.symbolCount : id \notin Ids(callStart.registry)
    /\ Len(callStart.registry) >= 2
    /\ InvokedIds = Ids(callStart.registry)

\* C4: removeRenderCallback with a token that is not in the registry (never
\* issued, or already removed), called between frames or from a callback,
\* leaves the registry, and the order the next executeRenderCallbacks will
\* walk, as they were, and does not leave the running handler.
Walk(reg, sorted, ns) == IdSeq(refreshSorted(reg, sorted, ns))

C4_UnknownTokenNoOp ==
    [][\A id \in Tokens(symbolCount) \ Ids(renderCallbacks) :
          (RemoveRenderCallback(id) \/ InvokeRemove(id))
          => /\ renderCallbacks' = renderCallbacks
             /\ Walk(renderCallbacks', sortedCallbacks', needsSort')
                  = Walk(renderCallbacks, sortedCallbacks, needsSort)
             /\ pc' = pc]_vars

\* a token that was issued and is no longer registered was passed to
\* removeRenderCallback while other callbacks are registered
C4_Witness ==
    /\ last.op = "removeRenderCallback" /\ ~last.hit /\ last.arg > 0
    /\ renderCallbacks # <<>>

\* C5: when a render callback throws, the remaining callbacks of that
\* executeRenderCallbacks call are still invoked.
C5_FailureIsolated ==
    (pc = "uncaught" /\ log[Len(log)] = Ev("throw", "callback"))
        => InvokedIds = Ids(callStart.registry)

\* the events of the running render(), by kind
Pos(name) == {i \in 1..Len(log) : log[i].ev = name}

\* every event of kind a precedes every event of kind b
Ordered(a, b) == \A j \in Pos(b) : \A i \in 1..Len(log) : log[i].ev = a => i < j

\* the k-th event is the only one of its kind
OnlyAt(k, name) == Pos(name) = {k}

\* C6 as stated: the frame state is advanced before the matrix pool is
\* reset, then auto-clear, executeRenderCallbacks, onframe.
C6_ClaimedOrder ==
    pc # "idle" =>
        /\ OnlyAt(1, "updateFrame") /\ OnlyAt(2, "resetMatrixPool")
        /\ Ordered("resetMatrixPool", "beginRenderPass")
        /\ Ordered("resetMatrixPool", "executeRenderCallbacks")
        /\ Ordered("beginRenderPass", "executeRenderCallbacks")
        /\ Ordered("executeRenderCallbacks", "callback")
        /\ Ordered("callback", "onframe")

\* C6 amended: a render() with a live device resets the matrix pool, then
\* advances the frame state, then performs the optional auto-clear, then
\* runs executeRenderCallbacks, then calls onframe; every render callback
\* is called with the frame state of this tick and a pool in which only
\* this tick's callbacks have acquired.
C6_TickOrder ==
    pc # "idle" =>
        /\ OnlyAt(1, "resetMatrixPool") /\ OnlyAt(2, "updateFrame")
        /\ Pos("beginRenderPass") \subseteq {3}
        /\ \E k \in {3, 4} : /\ OnlyAt(k, "executeRenderCallbacks")
                              /\ Pos("beginRenderPass") = {3} => k = 4
        /\ Ordered("executeRenderCallbacks", "callback")
        /\ Ordered("callback", "onframe")
        /\ AtCallback =>
              /\ frame.time = time /\ lastTime = time /\ frame.frameCount = ticks
              /\ poolIndex <= Cardinality(Pos("callback"))

\* a second frame, with auto-clear, a callback and onframe, is through
C6_Witness ==
    /\ pc = "return"
    /\ frame.frameCount = 2
    /\ Pos("beginRenderPass") # {} /\ Pos("callback") # {} /\ Pos("onframe") # {}

\* a render() begins: it takes the requested animation frame (onDestroy
\* cancels it instead, and unmounts)
RenderStarts == pc = "idle" /\ rafPending /\ ~rafPending' /\ mounted' = mounted

\* C7: a render() that begins while no device is set changes neither the
\* frame state nor the pool, calls no render callback and no onframe, and
\* returns at once.
C7_NoDeviceNoOp ==
    [][(RenderStarts /\ device = "null")
          => /\ frame' = frame /\ lastTime' = lastTime
             /\ poolIndex' = poolIndex
             /\ pc' = "idle" /\ log' = <<>>]_vars

\* render() has run with no device set
C7_Witness == last.op = "render" /\ ~last.hit /\ device = "null"

\* C8: a tick at time t leaves frame.time = t, frame.deltaTime = t minus the
\* time of the previous tick (0 if there was none since construction or
\* resetFrame) and frameCount one higher; frameCount is the number of ticks
\* since construction or resetFrame, only a tick or resetFrame changes the
\* frame, and only resetFrame lowers frameCount.
C8_FrameAdvance ==
    [][/\ (RenderStarts /\ pc' = "iterate")
            => /\ frame'.time = time'
               /\ frame'.deltaTime = time' - prevTick
               /\ frame'.frameCount = frame.frameCount + 1
       /\ frame'.frameCount = ticks'
       /\ frame' # frame => (RenderStarts \/ last'.op = "resetFrame")
       /\ frame'.frameCount < frame.frameCount => last'.op = "resetFrame"]_vars

\* two ticks, at times 1 and 2
C8_Witness == frame = [time |-> 2, deltaTime |-> 1, frameCount |-> 2]

\* C9: resetFrame leaves time, deltaTime, frameCount and lastTime zero, and
\* the first tick after it (as the first tick of a new container) has
\* deltaTime = time and frameCount = 1.
C9_ResetZeroes ==
    /\ last.op = "resetFrame" => (frame = ZeroFrame /\ lastTime = 0)
    /\ (pc # "idle" /\ ticks = 1)
          => (frame.time = time /\ frame.deltaTime = time /\ frame.frameCount = 1)

\* a container that had rendered frames was reset and has ticked once since
C9_Witness ==
    /\ pc = "return" /\ last.op = "render" /\ last.afterReset
    /\ frame.frameCount = 1 /\ frame.deltaTime = frame.time

\* C10: the context handed to onframe has time, deltaTime, frameCount and
\* device, equal to the container's frame state and device of that tick.
C10_FrameContext ==
    \A i \in Pos("onframe") :
        LET ctx == log[i].arg IN
        /\ DOMAIN ctx = {"time", "deltaTime", "frameCount", "device"}
        /\ ctx.time = frame.time
        /\ ctx.deltaTime = frame.deltaTime
        /\ ctx.frameCount = frame.frameCount
        /\ ctx.device = device

\* C12: once the Canvas has run onDestroy (and with it destroy()), device is
\* null and ready is false, also after a createDeviceInternal that was
\* pending at that moment resolves.
C12_DestroyedStaysDown ==
    ~mounted => (device = "null" /\ ~ready)

\* C13: once the Canvas has run onDestroy, no animation frame is requested
\* and no render() runs, so no render callback and no onframe is called.
C13_NoTickAfterDestroy ==
    ~mounted => (~rafPending /\ pc = "idle")

\* C17: a render() with a live device resets the matrix pool exactly once,
\* before any render callback is called, so that every matrix acquired
\* since was acquired by a callback of this tick.
C17_PoolResetOncePerTick ==
    pc # "idle" =>
        /\ Cardinality(Pos("resetMatrixPool")) = 1
        /\ \A i \in Pos("resetMatrixPool") : \A j \in Pos("callback") : i < j
        /\ poolIndex <= Cardinality(Pos("callback"))

\* the second tick is under way and one of its callbacks has acquired
C17_Witness ==
    /\ pc = "iterate" /\ device = "device"
    /\ frame.frameCount = 2
    /\ poolIndex = 1 /\ Pos("callback") # {}

\* =========================================================================
\* LumaState driven through its public methods, in any order
\* =========================================================================
MaxLights         == 2     \* light Symbols a run creates
MaxStateCallbacks == 2     \* callbacks registered in a run of the bare container

\* the Symbols light components create, and the intensities they set
LightIds    == 1..MaxLights
Intensities == {1}

LightKeys(ls) == {ls[i].id : i \in 1..Len(ls)}

\* lights.set(id, light): a Map keeps a present key at its place and puts a
\* new key last
addLight(ls, id, light) ==
    IF id \in LightKeys(ls)
    THEN [i \in 1..Len(ls) |-> IF ls[i].id = id THEN [id |-> id, light |-> light] ELSE ls[i]]
    ELSE Append(ls, [id |-> id, light |-> light])

\* lights.delete(id)
removeLight(ls, id) == SelectSeq(ls, LAMBDA e : e.id # id)

stateRest == <<frameVars, poolIndex, canvasVars, rafPending, tickVars, extVars>>

\* setDevice(device) with a newly created Device
SetDevice ==
    /\ device' = "device" /\ ready' = TRUE /\ gpu' = "live"
    /\ last' = Op("setDevice", 0, TRUE)
    /\ UNCHANGED <<error, schedVars, lights, stateRest>>

\* setError(error)
SetError ==
    /\ error' = "error" /\ ready' = FALSE
    /\ last' = Op("setError", 0, TRUE)
    /\ UNCHANGED <<device, gpu, schedVars, lights, stateRest>>

\* a light component's onMount
AddLight(id, v) ==
    /\ lights' = addLight(lights, id, [intensity |-> v])
    /\ last' = Op("addLight", id, TRUE)
    /\ UNCHANGED <<deviceVars, gpu, schedVars, stateRest>>

\* a light component's onDestroy
RemoveLight(id) ==
    /\ lights' = removeLight(lights, id)
    /\ last' = Op("removeLight", id, id \in LightKeys(lights))
    /\ UNCHANGED <<deviceVars, gpu, schedVars, stateRest>>

\* executeRenderCallbacks() with callbacks that touch no container state:
\* the operation records how many callbacks it invoked
ExecuteRenderCallbacks ==
    /\ LET view == refreshSorted(renderCallbacks, sortedCallbacks, needsSort) IN
        /\ sortedCallbacks' = view
        /\ needsSort' = FALSE
        /\ last' = Op("executeRenderCallbacks", Len(view), TRUE)
    /\ UNCHANGED <<deviceVars, gpu, renderCallbacks, symbolCount, lights, stateRest>>

\* addRenderCallback() on the bare container
StateAddRenderCallback(p) ==
    /\ symbolCount < MaxStateCallbacks
    /\ AddRenderCallback(p)

\* destroy(): the operation records what the container held
Destroy ==
    /\ LET d == destroy(device) IN
        /\ device' = d.device /\ ready' = d.ready
        /\ renderCallbacks' = d.renderCallbacks /\ sortedCallbacks' = d.sortedCallbacks
        /\ lights' = d.lights
        /\ gpu' = IF d.released THEN "destroyed" ELSE gpu
    /\ last' = Op("destroy",
                  [callbacks |-> Len(renderCallbacks), sorted |-> Len(sortedCallbacks),
                   lights |-> Len(lights)],
                  device # "null")
    /\ UNCHANGED <<error, needsSort, symbolCount, stateRest>>

NextState ==
    \/ SetDevice
    \/ SetError
    \/ \E id \in LightIds, v \in Intensities : AddLight(id, v)
    \/ \E id \in LightIds : RemoveLight(id)
    \/ \E p \in Priorities : StateAddRenderCallback(p)
    \/ \E id \in Tokens(symbolCount) : RemoveRenderCallback(id)
    \/ ExecuteRenderCallbacks
    \/ Destroy

SpecState == Init /\ [][NextState]_vars

\* C11: after destroy() the device is null and its handle released, ready is
\* false, the registry and the sorted view are empty, the next
\* executeRenderCallbacks would walk nothing, and no light is registered.
C11_DestroyClears ==
    last.op = "destroy" =>
        /\ device = "null" /\ gpu # "live" /\ ~ready
        /\ renderCallbacks = <<>> /\ sortedCallbacks = <<>>
        /\ refreshSorted(renderCallbacks, sortedCallbacks, needsSort) = <<>>
        /\ lights = <<>>

\* destroy() ran on a container with a device, registered callbacks, a
\* non-empty sorted view that was stale, and lights
C11_Witness ==
    /\ last.op = "destroy" /\ last.hit
    /\ last.arg.callbacks > 0 /\ last.arg.sorted > 0 /\ last.arg.lights > 0
    /\ needsSort /\ gpu = "destroyed"

\* =========================================================================
\* The matrix pool of math.ts, used through acquire() and reset()
\* =========================================================================
MaxPoolAcquire   == 66     \* acquire() calls between two reset() calls
MaxSharedAcquire == 4      \* the same, while two Canvases share the page

poolRest == <<deviceVars, frameVars, schedVars, canvasVars, rafPending, tickVars, last,
              lights, gpu, texVars, groupVars, moreVars>>

\* a math function called without an out argument: matrixPool.acquire()
PoolAcquire ==
    /\ poolIndex < MaxPoolAcquire
    /\ LET a == acquire(pool, poolIndex) IN
        /\ pool' = a.pool /\ poolIndex' = a.index
        /\ acquired' = Append(acquired, a.slot)
    /\ UNCHANGED <<held, poolRest>>

\* resetMatrixPool()
PoolReset ==
    /\ poolIndex' = reset
    /\ acquired' = <<>>
    /\ UNCHANGED <<pool, held, poolRest>>

NextPool ==
    \/ PoolAcquire
    \/ PoolReset

SpecPool == Init /\ [][NextPool]_vars

\* C16: the slots acquire() has returned since the last reset() are
\* pairwise distinct slots of the backing store, however many they are; the
\* backing store only ever changes by one new slot appended at the moment
\* an acquire() finds every slot handed out.
C16_AcquireDistinct ==
    [][/\ \A i, j \in 1..Len(acquired') : i # j => acquired'[i] # acquired'[j]
       /\ \A i \in 1..Len(acquired') : acquired'[i] \in 1..pool'
       /\ Len(acquired') = poolIndex'
       /\ \/ pool' = pool
          \/ /\ poolIndex = pool
             /\ pool' = pool + 1]_vars

\* more slots were acquired since the last reset() than the pool began with
C16_Witness ==
    /\ Len(acquired) > poolSize
    /\ pool > poolSize

\* ------------------------------------------- two Canvases on the same page
\* render() of Canvas c: resetMatrixPool()
CanvasTick(c) ==
    /\ poolIndex' = reset
    /\ acquired' = <<>>
    /\ held' = [held EXCEPT ![c] = {}]
    /\ UNCHANGED <<pool, poolRest>>

\* a component of Canvas c calls a math function without an out argument
CanvasAcquire(c) ==
    /\ poolIndex < MaxSharedAcquire
    /\ LET a == acquire(pool, poolIndex) IN
        /\ pool' = a.pool /\ poolIndex' = a.index
        /\ acquired' = Append(acquired, a.slot)
        /\ held' = [held EXCEPT ![c] = held[c] \cup {a.slot}]
    /\ UNCHANGED poolRest

NextShared ==
    \/ \E c \in Canvases : CanvasTick(c)
    \/ \E c \in Canvases : CanvasAcquire(c)

SpecShared == Init /\ [][NextShared]_vars

\* C18: each Canvas has a pool of its own: the slots handed to one Canvas
\* since its last tick are handed to no other Canvas, and the number of
\* slots a Canvas holds is its allocation index.
C18_PoolPerCanvas ==
    /\ \A c, d \in Canvases : c # d => held[c] \cap held[d] = {}
    /\ \A c \in Canvases : held[c] # {} => Cardinality(held[c]) <= poolIndex

\* =========================================================================
\* A texture owner inside the Canvas: the Texture component or useTexture
\* =========================================================================
Owners == {"Texture", "useTexture"}

\* useTexture's onMount after the await: the image promise resolved or
\* rejected; throws tells whether device.createTexture threw.  The try
\* block catches both failures, the finally block clears loading.
useTextureCompletion(outcome, throws) ==
    IF outcome = "resolved" /\ ~throws
    THEN [texture |-> "texture", error |-> texError, loading |-> FALSE,
          created |-> TRUE, calls |-> 0, unhandled |-> FALSE]
    ELSE [texture |-> texture, error |-> "error", loading |-> FALSE,
          created |-> FALSE, calls |-> 0, unhandled |-> FALSE]

\* the Texture component's onMount after the await: no try block, so a
\* rejected load or a throwing createTexture rejects the promise onMount
\* returned; on success ontextureloaded and ontexturecreated are called
TextureCompletion(outcome, throws, handlers) ==
    IF outcome = "resolved" /\ ~throws
    THEN [texture |-> "texture", error |-> texError, loading |-> texLoading,
          created |-> TRUE, calls |-> IF handlers THEN 2 ELSE 0, unhandled |-> FALSE]
    ELSE [texture |-> texture, error |-> texError, loading |-> texLoading,
          created |-> FALSE, calls |-> 0, unhandled |-> TRUE]

Completion(kind, outcome, throws, handlers) ==
    IF kind = "useTexture"
    THEN useTextureCompletion(outcome, throws)
    ELSE TextureCompletion(outcome, throws, handlers)

\* the owner's onDestroy: texture.destroy(); useTexture also nulls the slot
ownerDestroy(kind, tex) ==
    IF tex = "texture"
    THEN IF kind = "useTexture" THEN "null" ELSE "destroyed"
    ELSE tex

texRest == <<frameVars, schedVars, poolIndex, rafPending, tickVars, last, lights, poolVars,
             groupVars, moreVars>>

\* the owner is mounted (Canvas renders its children while ready): onMount
\* reads the device and, if there is one, starts the image load
TexMount(kind) ==
    /\ pc = "idle" /\ ready /\ mounted
    /\ texPc = "unmounted"
    /\ texOwner' = kind /\ texAlive' = TRUE
    /\ texDevice' = device
    /\ texPc' = IF device = "null" THEN "done" ELSE "loading"
    /\ texLoading' = (kind = "useTexture" /\ device # "null")
    /\ UNCHANGED <<texture, texError, texLast, deviceVars, gpu, canvasVars, texRest>>

\* the completion of onMount, whatever became of owner and Canvas meanwhile
Settle(outcome, throws, handlers) ==
    /\ pc = "idle" /\ texPc = "loading"
    /\ LET c == Completion(texOwner, outcome, throws, handlers) IN
        /\ texture' = c.texture /\ texError' = c.error /\ texLoading' = c.loading
        /\ texLast' = [settled |-> outcome, live |-> texAlive /\ mounted,
                       created |-> c.created,
                       released |-> c.created /\ gpu = "destroyed",
                       calls |-> c.calls, unhandled |-> c.unhandled]
    /\ texPc' = "done"
    /\ UNCHANGED <<texOwner, texAlive, texDevice, deviceVars, gpu, canvasVars, texRest>>

\* image.onload: createTexture may throw only on a destroyed device
TexLoaded(throws, handlers) ==
    /\ throws => gpu = "destroyed"
    /\ Settle("resolved", throws, handlers)

\* image.onerror
TexLoadFailed ==
    /\ texPc = "loading"
    /\ Settle("rejected", FALSE, FALSE)

\* the owner alone is unmounted
TexDestroy ==
    /\ pc = "idle" /\ texAlive
    /\ texAlive' = FALSE
    /\ texture' = ownerDestroy(texOwner, texture)
    /\ UNCHANGED <<texOwner, texPc, texDevice, texLoading, texError, texLast,
                   deviceVars, gpu, canvasVars, texRest>>

\* the Canvas is unmounted, and its children with it
TexCanvasDestroy ==
    /\ pc = "idle" /\ mounted
    /\ mounted' = FALSE
    /\ rafPending' = FALSE
    /\ LET d == destroy(device) IN
        /\ device' = d.device /\ ready' = d.ready
        /\ renderCallbacks' = d.renderCallbacks /\ sortedCallbacks' = d.sortedCallbacks
        /\ lights' = d.lights
        /\ gpu' = IF d.released THEN "destroyed" ELSE gpu
    /\ texAlive' = FALSE
    /\ texture' = IF texAlive THEN ownerDestroy(texOwner, texture) ELSE texture
    /\ last' = Op("destroy", 0, TRUE)
    /\ UNCHANGED <<error, creating, needsSort, symbolCount, frameVars, poolIndex, tickVars,
                   poolVars, groupVars, moreVars, texOwner, texPc, texDevice, texLoading,
                   texError, texLast>>

NextTexture ==
    \/ DeviceCreated
    \/ \E kind \in Owners : TexMount(kind)
    \/ \E throws, handlers \in BOOLEAN : TexLoaded(throws, handlers)
    \/ TexLoadFailed
    \/ TexDestroy
    \/ TexCanvasDestroy
    \/ \E t \in Times : RenderBegin(t, TRUE)
    \/ RenderEnd(FALSE)
    \/ Return

SpecTexture == Init /\ [][NextTexture]_vars

\* C14: an image load that resolves after its owner or the Canvas was
\* unmounted creates no texture, leaves the texture slot without a live
\* texture and calls no user handler.
C14_LateLoadNoOp ==
    (texLast.settled = "resolved" /\ ~texLast.live)
        => (~texLast.created /\ texture # "texture" /\ texLast.calls = 0)

\* C15: an image load that fails leaves the owner with error set, loading
\* false and no texture, rejects no promise unhandled, and the tick loop of
\* a ready Canvas stays scheduled.
C15_LoadFailureCaptured ==
    texLast.settled = "rejected" =>
        /\ texError = "error" /\ ~texLoading /\ texture = "null"
        /\ ~texLast.unhandled
        /\ (mounted /\ ready) => (rafPending \/ pc # "idle")

\* =========================================================================
\* Group components and a Mesh inside one: the ambient parent transform
\* =========================================================================
\* the positions given as props; rotation and scale keep their defaults
Positions  == {<<1, 0, 0>>, <<0, 2, 0>>}
NoRotation == <<0, 0, 0>>
UnitScale  == <<1, 1, 1>>

\* Groups whose script has run and whose onMount has not: "created" while
\* the scripts of the components being mounted run, "queued" once the first
\* of their onMounts has run
Pending == {g \in GroupIds : grp[g].phase \in {"created", "queued"}}

\* Groups that are mounted: entered and not left
Entered == {g \in GroupIds : grp[g].phase = "mounted"}

RECURSIVE IsAncestor(_, _)
IsAncestor(h, g) ==
    /\ grp[g].parent # 0
    /\ (grp[g].parent = h \/ IsAncestor(h, grp[g].parent))

\* Svelte runs the onMount of a component after those of the components
\* inside it, and those of siblings in the order of the markup, which is the
\* order their scripts ran in
CanMount(g) ==
    /\ g \in Pending
    /\ \A h \in Pending : h # g => (IsAncestor(h, g) \/ (g < h /\ ~IsAncestor(g, h)))

\* the scripts run in the order of the markup: a component that comes after
\* Group h has ended is not inside h
Open(par) ==
    IF par = 0 \/ grp[par].phase = "mounted" THEN TRUE
    ELSE /\ grp[par].phase = "created"
         /\ \A h \in Pending : h > par => IsAncestor(par, h)

\* updateWorldMatrix() of Group g: its worldMatrix after; parentMatrix is
\* the array captured when the script ran, read as it is now
updateWorldMatrix(g, position) ==
    LET localMatrix == mat4Compose(position, NoRotation, UnitScale) IN
    IF grp[g].parentMatrix # 0
    THEN mat4Multiply(grp[grp[g].parentMatrix].worldMatrix, localMatrix)
    ELSE localMatrix

\* updateModelMatrix() with the missing parent taken for the zero matrix
updateModelMatrixNoRoot ==
    IF ~(leaf.position # leaf.lastPosition) /\ ~leaf.matrixDirty THEN leaf.cachedModelMatrix
    ELSE LET localMatrix == mat4Compose(leaf.position, NoRotation, UnitScale) IN
         IF parentTransform # 0
         THEN mat4Multiply(grp[parentTransform].worldMatrix, localMatrix)
         ELSE Zero16

\* checkTransformDirty() of the Mesh: the props differ from the last ones seen
checkTransformDirty == leaf.position # leaf.lastPosition

\* updateModelMatrix() of the Mesh: its cachedModelMatrix after
updateModelMatrix ==
    IF ~checkTransformDirty /\ ~leaf.matrixDirty THEN leaf.cachedModelMatrix
    ELSE LET localMatrix == mat4Compose(leaf.position, NoRotation, UnitScale) IN
         IF parentTransform # 0
         THEN mat4Multiply(grp[parentTransform].worldMatrix, localMatrix)
         ELSE localMatrix

\* the Mesh after a step that is not a draw: drawn describes the draw made
\* by the last step, if it was one
undrawn == IF leaf.phase # "mounted" THEN leaf ELSE [leaf EXCEPT !.drawn = <<>>]

\* the Groups once the arrays nothing can read any more are dropped: of a
\* destroyed Group only worldMatrix is left, and only while it is the ambient
\* transform pt or the parentMatrix captured by a Group that still exists
collect(gs, pt) ==
    [h \in GroupIds |->
        IF gs[h].phase # "destroyed" THEN gs[h]
        ELSE IF h = pt \/ \E x \in GroupIds : /\ gs[x].phase \in {"created", "queued", "mounted"}
                                              /\ gs[x].parentMatrix = h
             THEN [phase |-> "destroyed", worldMatrix |-> gs[h].worldMatrix]
             ELSE [phase |-> "destroyed"]]

groupRest == <<deviceVars, frameVars, schedVars, poolIndex, canvasVars, rafPending, tickVars,
               last, lights, gpu, poolVars, texVars, moreVars>>

\* the script of a new Group runs, inside Group par or at the top (0), before
\* any onMount of the components mounted with it: it captures the ambient
\* transform
GroupCreate(g, par, p) ==
    /\ grp[g].phase = "absent"
    /\ \A h \in GroupIds : h < g => grp[h].phase # "absent"
    /\ \A h \in GroupIds : grp[h].phase # "queued"
    /\ Open(par)
    /\ grp' = [grp EXCEPT ![g] = [phase |-> "created", parent |-> par,
                                  parentMatrix |-> parentTransform,
                                  position |-> p, worldMatrix |-> Zero16]]
    /\ leaf' = undrawn
    /\ UNCHANGED <<parentTransform, moves, groupRest>>

\* onMount of a Group: updateWorldMatrix(), which ends in setParentTransform
GroupMount(g) ==
    /\ CanMount(g)
    /\ grp' = collect([h \in GroupIds |->
                          IF h = g
                          THEN [grp[g] EXCEPT !.phase = "mounted",
                                              !.worldMatrix =
                                                  updateWorldMatrix(g, grp[g].position)]
                          ELSE IF h \in Pending THEN [grp[h] EXCEPT !.phase = "queued"]
                          ELSE grp[h]],
                      g)
    /\ parentTransform' = g
    /\ leaf' = undrawn
    /\ UNCHANGED <<moves, groupRest>>

\* a mounted Group is given another position: its $effect sees the change
\* and runs updateWorldMatrix()
GroupUpdate(g, p) ==
    /\ Pending = {} /\ moves < MaxMoves
    /\ g \in Entered /\ p # grp[g].position
    /\ grp' = collect([grp EXCEPT ![g].position = p,
                                  ![g].worldMatrix = updateWorldMatrix(g, p)],
                      g)
    /\ parentTransform' = g
    /\ leaf' = undrawn
    /\ moves' = moves + 1
    /\ UNCHANGED groupRest

\* Group g is unmounted, and with it what it contains: each onDestroy runs
\* setParentTransform(parentMatrix); the one that runs last decides
GroupDestroy(g) ==
    /\ Pending = {}
    /\ g \in Entered
    /\ LET gone == {g} \cup {h \in Entered : IsAncestor(g, h)} IN
        /\ \E l \in gone :
              /\ parentTransform' = grp[l].parentMatrix
              /\ grp' = collect([h \in GroupIds |->
                                    IF h \in gone THEN [grp[h] EXCEPT !.phase = "destroyed"]
                                    ELSE grp[h]],
                                grp[l].parentMatrix)
        /\ leaf' = IF leaf.phase = "mounted" /\ leaf.in \in gone
                   THEN [phase |-> "destroyed"]
                   ELSE undrawn
    /\ UNCHANGED <<moves, groupRest>>

\* a Mesh is created directly inside Group g, or at the top (0):
\* cachedModelMatrix is a new Float32Array(16), lastPosition a copy of the
\* prop, matrixDirty is true; drawn is the history of its last draw
LeafMount(g, p) ==
    /\ leaf.phase = "absent"
    /\ \A h \in GroupIds : grp[h].phase # "queued"
    /\ Open(g)
    /\ leaf' = [phase |-> "mounted", in |-> g, position |-> p, lastPosition |-> p,
                cachedModelMatrix |-> Zero16, matrixDirty |-> TRUE, drawn |-> <<>>]
    /\ UNCHANGED <<parentTransform, grp, moves, groupRest>>

\* the Mesh is given another position, once the components being mounted
\* are mounted
LeafUpdate(p) ==
    /\ Pending = {} /\ moves < MaxMoves
    /\ leaf.phase = "mounted" /\ p # leaf.position
    /\ leaf' = [undrawn EXCEPT !.position = p]
    /\ moves' = moves + 1
    /\ UNCHANGED <<parentTransform, grp, groupRest>>

\* the render callback of the Mesh: updateModelMatrix(), then the draw with
\* uModelMatrix = cachedModelMatrix; drawn records the matrix drawn, the
\* worldMatrix of the Mesh's Group and the Mesh's local matrix at that moment,
\* and whether the matrix was computed for this draw; the Groups and the
\* ambient transform are still those of the draw while drawn is set
LeafDraw ==
    /\ Pending = {}
    /\ leaf.phase = "mounted"
    /\ LET m == updateModelMatrix IN
        leaf' = [leaf EXCEPT !.cachedModelMatrix = m,
                             !.lastPosition = leaf.position,
                             !.matrixDirty = FALSE,
                             !.drawn = [matrix |-> m,
                                        groupWorld |-> IF leaf.in # 0
                                                       THEN grp[leaf.in].worldMatrix
                                                       ELSE Zero16,
                                        local |-> mat4Compose(leaf.position, NoRotation,
                                                              UnitScale),
                                        recomputed |-> checkTransformDirty \/ leaf.matrixDirty]]
    /\ UNCHANGED <<parentTransform, grp, moves, groupRest>>

NextGroup ==
    \/ \E g \in GroupIds, par \in {0} \cup GroupIds, p \in Positions : GroupCreate(g, par, p)
    \/ \E g \in GroupIds : GroupMount(g)
    \/ \E g \in GroupIds, p \in Positions : GroupUpdate(g, p)
    \/ \E g \in GroupIds : GroupDestroy(g)
    \/ \E g \in {0} \cup GroupIds, p \in Positions : LeafMount(g, p)
    \/ \E p \in Positions : LeafUpdate(p)
    \/ LeafDraw

SpecGroup == Init /\ [][NextGroup]_vars

\* C19: once every onMount has run, the ambient parent transform is none
\* when no Group is entered, and otherwise the worldMatrix of an entered
\* Group that has no entered Group inside it.
C19_StackDiscipline ==
    Pending = {} =>
        IF Entered = {}
        THEN parentTransform = 0
        ELSE /\ parentTransform \in Entered
             /\ \A h \in Entered : grp[h].parent # parentTransform

\* C20: the matrix a Mesh placed directly inside a Group is drawn with is
\* that Group's worldMatrix times the Mesh's local matrix.
C20_LeafWorldMatrix ==
    (leaf.phase = "mounted" /\ leaf.in # 0 /\ leaf.drawn # <<>>) =>
        leaf.drawn.matrix = mat4Multiply(leaf.drawn.groupWorld, leaf.drawn.local)

\* the local matrix of a component at position p
Local(p) == mat4Compose(p, NoRotation, UnitScale)

\* C21: in a chain of an outer Group, an inner Group and a Mesh, all mounted,
\* the inner Group's worldMatrix is the outer one's times the inner local
\* matrix, and the Mesh is drawn with outer local x inner local x Mesh local.
C21_ThreeLevelChain ==
    /\ \A a, b \in GroupIds :
          (Pending = {} /\ a \in Entered /\ b \in Entered /\ grp[b].parent = a) =>
              grp[b].worldMatrix = mat4Multiply(grp[a].worldMatrix, Local(grp[b].position))
    /\ (leaf.phase = "mounted" /\ leaf.in # 0 /\ leaf.drawn # <<>>) =>
          LET G == grp
              b == leaf.in
              a == G[b].parent IN
          (a # 0 /\ G[a].parent = 0 /\ G[a].phase = "mounted" /\ G[b].phase = "mounted") =>
              leaf.drawn.matrix =
                  mat4Multiply(mat4Multiply(Local(G[a].position), Local(G[b].position)),
                               leaf.drawn.local)

\* C22: the matrix a Mesh is drawn with is the ambient parent transform of
\* that moment times the Mesh's local matrix of that moment.
C22_CacheNeverStale ==
    (leaf.phase = "mounted" /\ leaf.drawn # <<>>) =>
        leaf.drawn.matrix =
            IF parentTransform # 0
            THEN mat4Multiply(grp[parentTransform].worldMatrix, leaf.drawn.local)
            ELSE leaf.drawn.local

MaxLightComponents == 9     \* light components mounted at once

\* the size of the light arrays of the material shaders
MAX_LIGHTS == 8

lightRest == <<deviceVars, gpu, schedVars, stateRest>>

\* the descriptor the k-th light component registers: its props differ from
\* those of the others in intensity
PointLight(k) == [type |-> "point", color |-> 1, intensity |-> k]

\* getLightsArray() with the values in the opposite order
getLightsArrayReversed(ls) == [i \in 1..Len(ls) |-> ls[Len(ls) + 1 - i].light]

\* getLightsArray(): Array.from(this.lights.values())
getLightsArray(ls) == [i \in 1..Len(ls) |-> ls[i].light]

\* the Symbol of the next light component: one no registered light has
NewLightId == IF lights = <<>> THEN 1 ELSE lights[Len(lights)].id + 1

\* onMount of a light component
LightMount ==
    /\ NewLightId <= MaxLightComponents
    /\ lights' = addLight(lights, NewLightId, PointLight(NewLightId))
    /\ last' = Op("addLight", NewLightId, TRUE)
    /\ UNCHANGED lightRest

\* onDestroy of the light component that holds Symbol id
LightDestroy(id) ==
    /\ id \in LightKeys(lights)
    /\ lights' = removeLight(lights, id)
    /\ last' = Op("removeLight", id, TRUE)
    /\ UNCHANGED lightRest

\* the render callback of a Mesh, as far as lights go: uLightCount and
\* uLights are set when the array is not empty; arg is its length
MeshLights ==
    /\ LET lightsArray == getLightsArray(lights) IN
        last' = Op("renderCallback", Len(lightsArray), Len(lightsArray) > 0)
    /\ UNCHANGED <<lights, lightRest>>

NextLights ==
    \/ LightMount
    \/ \E id \in 1..MaxLightComponents : LightDestroy(id)
    \/ MeshLights

SpecLights == Init /\ [][NextLights]_vars

\* C24: getLightsArray() returns min(n, 8) descriptors for n registered
\* lights, and a Mesh never sets uLightCount above 8.
C24_EnumerateCapped ==
    /\ Len(getLightsArray(lights)) =
           IF Len(lights) < MAX_LIGHTS THEN Len(lights) ELSE MAX_LIGHTS
    /\ last.op = "renderCallback" => last.arg <= MAX_LIGHTS

\* C25: getLightsArray() lists lights in the order they were registered, and
\* a registered light with fewer than 8 registered lights before it is listed,
\* at the place that order gives it.
C25_InsertionOrder ==
    LET lightsArray == getLightsArray(lights) IN
    /\ \A i, j \in 1..Len(lightsArray) :
          i < j => lightsArray[i].intensity < lightsArray[j].intensity
    /\ \A k \in 1..Len(lights) :
          k <= MAX_LIGHTS =>
              /\ k <= Len(lightsArray)
              /\ lightsArray[k] = PointLight(lights[k].id)

\* nine lights were registered, one of the first eight was removed, and the
\* ninth is the eighth of the eight listed
C25_Witness ==
    /\ last.op = "removeLight" /\ last.arg < MAX_LIGHTS
    /\ Len(lights) = MAX_LIGHTS /\ lights[MAX_LIGHTS].id = MAX_LIGHTS + 1
    /\ Len(getLightsArray(lights)) = MAX_LIGHTS
    /\ getLightsArray(lights)[MAX_LIGHTS] = PointLight(MAX_LIGHTS + 1)

\* ------------------------------------------------ updateLight(id, partial)
\* the values light props take
Colors == {0, 1}
Levels == {1, 2}

\* the descriptors light components register
Descriptors == [type : {"point"}, color : Colors, intensity : Levels]

\* Partial<LightState> values: any of color and intensity, or neither
Partials ==
    {<<>>} \cup [color : Colors] \cup [intensity : Levels]
           \cup [color : Colors, intensity : Levels]

\* { ...existing, ...light }, field by field
Spread(existing, light) ==
    LET pick(f) == IF f \in DOMAIN light THEN light[f] ELSE existing[f] IN
    [type |-> pick("type"), color |-> pick("color"), intensity |-> pick("intensity")]

\* updateLight() that deletes the key before it sets it: the light moves last
updateLightReinsert(ls, id, light) ==
    IF id \in LightKeys(ls)
    THEN Append(removeLight(ls, id),
                [id |-> id,
                 light |-> Spread((CHOOSE e \in {ls[i] : i \in 1..Len(ls)} : e.id = id).light,
                                  light)])
    ELSE ls

\* updateLight(id, light)
updateLight(ls, id, light) ==
    IF id \in LightKeys(ls)
    THEN addLight(ls, id, Spread((CHOOSE e \in {ls[i] : i \in 1..Len(ls)} : e.id = id).light,
                                 light))
    ELSE ls

\* addLight(id, descriptor)
AddDescriptor(id, d) ==
    /\ lights' = addLight(lights, id, d)
    /\ last' = Op("addLight", id, TRUE)
    /\ UNCHANGED lightRest

\* updateLight(id, partial), with any Symbol: one in use, one removed, one
\* never registered; before is the Map as it was when the call was made
UpdateLight(id, partial) ==
    /\ lights' = updateLight(lights, id, partial)
    /\ last' = Op("updateLight", [id |-> id, partial |-> partial, before |-> lights],
                  id \in LightKeys(lights))
    /\ UNCHANGED lightRest

NextLightUpdate ==
    \/ \E id \in LightIds, d \in Descriptors : AddDescriptor(id, d)
    \/ \E id \in LightIds, partial \in Partials : UpdateLight(id, partial)
    \/ \E id \in LightIds : RemoveLight(id)

SpecLightUpdate == Init /\ [][NextLightUpdate]_vars

\* C26: updateLight(id, partial) on a registered id sets the fields of
\* partial in the descriptor under id and leaves its other fields, the order
\* of the lights and the other lights as they were; on an id that is not
\* registered it changes nothing.
C26_UpdateMerges ==
    last.op = "updateLight" =>
        LET id      == last.arg.id
            partial == last.arg.partial
            before  == last.arg.before IN
        IF id \in LightKeys(before)
        THEN /\ Len(lights) = Len(before)
             /\ \A i \in 1..Len(before) :
                   /\ lights[i].id = before[i].id
                   /\ before[i].id # id => lights[i] = before[i]
                   /\ before[i].id = id =>
                         /\ DOMAIN lights[i].light = DOMAIN before[i].light
                         /\ \A f \in DOMAIN before[i].light :
                               lights[i].light[f] =
                                   IF f \in DOMAIN partial THEN partial[f]
                                   ELSE before[i].light[f]
        ELSE lights = before

\* an update of the first of two lights changed its intensity and kept its
\* color, which differs from the other light's
C26_Witness ==
    /\ last.op = "updateLight" /\ last.hit
    /\ DOMAIN last.arg.partial = {"intensity"}
    /\ Len(lights) = 2 /\ lights[1].id = last.arg.id
    /\ last.arg.before[1].light.intensity # lights[1].light.intensity
    /\ lights[1].light.color = last.arg.before[1].light.color
    /\ lights[2].light.color # lights[1].light.color

\* =========================================================================
\* The mouse state of LumaState, driven by the Canvas mouse handlers
\* =========================================================================
\* viewport sizes, positions inside the canvas, bounding rectangles of the
\* canvas element, and MouseEvent.buttons values
Sizes   == {<<800, 600>>, <<400, 300>>}
LocalXs == {0, 200, 800}
LocalYs == {0, 150, 600}
Rects   == {[left |-> 0, top |-> 0], [left |-> 10, top |-> 20]}
Buttons == {0, 1, 2}

\* setViewport(width, height, pixelRatio): pixelRatio is stored and not read
setViewport(width, height) ==
    [width |-> width, height |-> height, aspect |-> Over(Whole(width), Whole(height))]

\* updateMousePosition() without the sign change of normalizedY
updateMousePositionNoFlip(m, vp, clientX, clientY, rect) ==
    LET x == clientX - rect.left
        y == clientY - rect.top IN
    [m EXCEPT !.x = x, !.y = y,
              !.normalizedX = Minus(Mul(Over(Whole(x), Whole(vp.width)), Whole(2)), Whole(1)),
              !.normalizedY = Minus(Mul(Over(Whole(y), Whole(vp.height)), Whole(2)), Whole(1))]

\* updateMousePosition(clientX, clientY, rect)
updateMousePosition(m, vp, clientX, clientY, rect) ==
    LET x == clientX - rect.left
        y == clientY - rect.top IN
    [m EXCEPT !.x = x, !.y = y,
              !.normalizedX = Minus(Mul(Over(Whole(x), Whole(vp.width)), Whole(2)), Whole(1)),
              !.normalizedY =
                  Neg(Minus(Mul(Over(Whole(y), Whole(vp.height)), Whole(2)), Whole(1)))]

\* updateMouseButtons(buttons)
updateMouseButtons(m, buttons) ==
    [m EXCEPT !.buttons = buttons, !.isDragging = buttons > 0 /\ m.isOver]

\* setMouseOver() that leaves isDragging as it is
setMouseOverKeepsDragging(m, isOver) ==
    [m EXCEPT !.isOver = isOver]

\* setMouseOver(isOver)
setMouseOver(m, isOver) ==
    [m EXCEPT !.isOver = isOver, !.isDragging = IF isOver THEN m.isDragging ELSE FALSE]

mouseRest == <<deviceVars, frameVars, schedVars, poolIndex, canvasVars, rafPending, tickVars,
               lights, gpu, poolVars, texVars, groupVars, sceneVars, calc, regVars>>

\* the $effect of the Canvas after its width or height prop changed
SetViewport(size) ==
    /\ setViewport(size[1], size[2]) # viewport
    /\ viewport' = setViewport(size[1], size[2])
    /\ last' = Op("setViewport", 0, TRUE)
    /\ UNCHANGED <<mouse, mouseRest>>

\* handleMouseMove with the pointer at (x, y) inside the canvas, whose
\* bounding rectangle is rect; arg keeps the position, the viewport and the
\* buttons and isOver of before the call
HandleMouseMove(x, y, rect) ==
    /\ mouse' = updateMousePosition(mouse, viewport, rect.left + x, rect.top + y, rect)
    /\ last' = Op("updateMousePosition",
                  [x |-> x, y |-> y, width |-> viewport.width, height |-> viewport.height,
                   buttons |-> mouse.buttons, isOver |-> mouse.isOver], TRUE)
    /\ UNCHANGED <<viewport, mouseRest>>

\* handleMouseDown and handleMouseUp
HandleMouseButtons(buttons) ==
    /\ mouse' = updateMouseButtons(mouse, buttons)
    /\ last' = Op("updateMouseButtons", buttons, TRUE)
    /\ UNCHANGED <<viewport, mouseRest>>

\* handleMouseEnter and handleMouseLeave
HandleMouseOver(isOver) ==
    /\ mouse' = setMouseOver(mouse, isOver)
    /\ last' = Op("setMouseOver", IF isOver THEN 1 ELSE 0, TRUE)
    /\ UNCHANGED <<viewport, mouseRest>>

NextMouse ==
    \/ \E size \in Sizes : SetViewport(size)
    \/ \E x \in LocalXs, y \in LocalYs, rect \in Rects : HandleMouseMove(x, y, rect)
    \/ \E buttons \in Buttons : HandleMouseButtons(buttons)
    \/ \E isOver \in BOOLEAN : HandleMouseOver(isOver)

SpecMouse == Init /\ [][NextMouse]_vars

\* C27: after updateMousePosition at (x, y) inside a canvas whose viewport is
\* W by H, normalizedX is (x/W)*2 - 1 and normalizedY is -((y/H)*2 - 1); on
\* 800 by 600, (0,0) gives (-1, 1) and (800,600) gives (1, -1); buttons and
\* isOver are those of before.
C27_Normalized ==
    last.op = "updateMousePosition" =>
        LET a == last.arg IN
        /\ mouse.x = a.x /\ mouse.y = a.y
        /\ mouse.normalizedX.d > 0 /\ mouse.normalizedY.d > 0
        /\ mouse.normalizedX.n * a.width = (2 * a.x - a.width) * mouse.normalizedX.d
        /\ mouse.normalizedY.n * a.height = (a.height - 2 * a.y) * mouse.normalizedY.d
        /\ (a.width = 800 /\ a.height = 600 /\ a.x = 0 /\ a.y = 0) =>
              (mouse.normalizedX = Whole(-1) /\ mouse.normalizedY = Whole(1))
        /\ (a.width = 800 /\ a.height = 600 /\ a.x = 800 /\ a.y = 600) =>
              (mouse.normalizedX = Whole(1) /\ mouse.normalizedY = Whole(-1))
        /\ mouse.buttons = a.buttons /\ mouse.isOver = a.isOver

\* the pointer moved to (800, 600) on the 800 by 600 viewport with a button
\* held inside a canvas that is not at the origin of the page
C27_Witness ==
    /\ last.op = "updateMousePosition"
    /\ last.arg.width = 800 /\ last.arg.height = 600
    /\ last.arg.x = 800 /\ last.arg.y = 600
    /\ mouse.normalizedX = Whole(1) /\ mouse.normalizedY = Whole(-1)
    /\ mouse.buttons > 0 /\ mouse.isOver /\ mouse.isDragging

\* C28: isDragging is true exactly when a button is held and the pointer is
\* over the canvas.
C28_DraggingIff ==
    mouse.isDragging <=> (mouse.buttons > 0 /\ mouse.isOver)

\* updateMousePosition has run: it never leaves x and normalizedX both 0
Moved == <<mouse.x, mouse.normalizedX>> # <<0, Whole(0)>>

\* C36: isDragging is true only while a button is held and the pointer is
\* over the canvas, and setMouseOver(false) leaves it false.
C36_DraggingImplies ==
    /\ mouse.isDragging => (mouse.buttons > 0 /\ mouse.isOver)
    /\ (last.op = "setMouseOver" /\ last.arg = 0) => (~mouse.isDragging /\ ~mouse.isOver)

\* the pointer left the canvas with a button held
C36_Witness ==
    /\ last.op = "setMouseOver" /\ last.arg = 0
    /\ mouse.buttons > 0 /\ ~mouse.isOver /\ ~mouse.isDragging /\ Moved

\* C35: once the pointer position was stored, the normalized coordinates
\* are those of the stored x and y on the viewport as it is now, after
\* setViewport calls too, and aspect is width / height.
C35_NormalizedFollowsViewport ==
    /\ viewport.aspect.d > 0
    /\ viewport.aspect.n * viewport.height = viewport.width * viewport.aspect.d
    /\ Moved =>
          /\ mouse.normalizedX.n * viewport.width
                 = (2 * mouse.x - viewport.width) * mouse.normalizedX.d
          /\ mouse.normalizedY.n * viewport.height
                 = (viewport.height - 2 * mouse.y) * mouse.normalizedY.d

\* =========================================================================
\* Scene and OrbitCamera components: who sets and who clears the scene state
\* =========================================================================
CameraKinds     == {"Scene", "OrbitCamera"}
CameraPositions == {5, 6}      \* the z of cameraPosition

\* setScene(projectionMatrix, viewMatrix, cameraPosition) by camera c: the
\* scene state refers to the arrays of c and holds its cameraPosition
setScene(c, z) == [owner |-> c, cameraPosition |-> z]

\* clearScene()
clearScene == NoScene

Attached == {c \in CameraIds : cam[c].phase = "mounted"}

sceneRest == <<deviceVars, frameVars, schedVars, poolIndex, canvasVars, rafPending, tickVars,
               lights, gpu, poolVars, texVars, groupVars, uiVars, calc, regVars>>

\* a Scene or an OrbitCamera is mounted: the $effect of the Scene, and the
\* onMount of the OrbitCamera through updateMatrices(), call setScene
CameraMount(c, kind, z) ==
    /\ cam[c].phase = "absent"
    /\ \A b \in CameraIds : b < c => cam[b].phase # "absent"
    /\ cam' = [cam EXCEPT ![c] = [phase |-> "mounted", kind |-> kind, cameraPosition |-> z]]
    /\ scene' = setScene(c, z)
    /\ last' = Op("setScene", c, TRUE)
    /\ UNCHANGED sceneRest

\* a prop of a mounted camera changes: its $effect runs and calls setScene
CameraUpdate(c, z) ==
    /\ c \in Attached /\ z # cam[c].cameraPosition
    /\ cam' = [cam EXCEPT ![c].cameraPosition = z]
    /\ scene' = setScene(c, z)
    /\ last' = Op("setScene", c, TRUE)
    /\ UNCHANGED sceneRest

\* onDestroy of camera c: the Scene calls clearScene(), the OrbitCamera
\* removes its window listeners and leaves the scene state alone
CameraDestroy(c) ==
    /\ c \in Attached
    /\ cam' = [cam EXCEPT ![c].phase = "destroyed"]
    /\ scene' = IF cam[c].kind = "Scene" THEN clearScene ELSE scene
    /\ last' = Op("cameraDestroy", c, cam[c].kind = "Scene")
    /\ UNCHANGED sceneRest

NextScene ==
    \/ \E c \in CameraIds, kind \in CameraKinds, z \in CameraPositions : CameraMount(c, kind, z)
    \/ \E c \in CameraIds, z \in CameraPositions : CameraUpdate(c, z)
    \/ \E c \in CameraIds : CameraDestroy(c)

SpecScene == Init /\ [][NextScene]_vars

\* C29: the scene state is non-null exactly while a Scene or OrbitCamera that
\* set it is attached.
C29_SceneWhileAttached ==
    IF Attached = {} THEN scene.owner = 0 ELSE scene.owner # 0

\* =========================================================================
\* mat4Multiply and mat4TransformPoint of math.ts
\* =========================================================================
\* mat4Perspective(fov, aspect, near, far), given f = 1 / tan(fov / 2); the
\* arguments used make every quotient whole
mat4Perspective(f, aspect, near, far) ==
    LET m == << f \div aspect, 0, 0, 0,
                0, f, 0, 0,
                0, 0, (far + near) \div (near - far), -1,
                0, 0, (2 * far * near) \div (near - far), 0 >> IN
    Float32Array(m)

\* the w of mat4TransformPoint(m, p)
wOf(m, p) ==
    Plus(Plus(Plus(Mul(Whole(m[3]), p[1]), Mul(Whole(m[7]), p[2])),
              Mul(Whole(m[11]), p[3])),
         Whole(m[15]))

\* mat4TransformPoint(m, p)
mat4TransformPoint(m, p) ==
    LET x == p[1]  y == p[2]  z == p[3]
        w == wOf(m, p)
        row(r) == Plus(Plus(Plus(Mul(Whole(m[r]), x), Mul(Whole(m[4 + r]), y)),
                            Mul(Whole(m[8 + r]), z)),
                       Whole(m[12 + r])) IN
    << Over(row(0), w), Over(row(1), w), Over(row(2), w) >>

\* the matrices multiplied: translations, a quarter turn about z, a scaling,
\* their compositions, and a perspective projection
Translations == Positions \cup {<<0, 0, 0>>}
Rotations    == {NoRotation, <<0, 0, 1>>}
Scales       == {UnitScale, <<2, 1, 1>>}

Matrices ==
    {mat4Compose(p, r, sc) : p \in Translations, r \in Rotations, sc \in Scales}
        \cup {mat4Perspective(1, 1, 1, 3)}

\* the points transformed
Points == {<<Whole(1), Whole(0), Whole(0)>>, <<Whole(0), Whole(2), Whole(-1)>>,
           <<Whole(1), Whole(2), Whole(3)>>}

mathRest == <<deviceVars, frameVars, schedVars, poolIndex, canvasVars, rafPending, tickVars,
              last, lights, gpu, poolVars, texVars, groupVars, uiVars, sceneVars, regVars>>

\* mat4Multiply(a, b, out) with out a Float32Array of the caller
Multiply(a, b) ==
    /\ calc' = [op |-> "mat4Multiply", a |-> a, b |-> b, out |-> mat4Multiply(a, b)]
    /\ UNCHANGED mathRest

\* the positions composed: those of Translations and one with a negative entry
ComposePositions == Translations \cup {<<-1, 3, 2>>}

\* mat4Compose(position, rotation, scale, out) with out a Float32Array of the
\* caller
Compose(position, rotation, scale) ==
    /\ calc' = [op |-> "mat4Compose", position |-> position, rotation |-> rotation,
                scale |-> scale, out |-> mat4Compose(position, rotation, scale)]
    /\ UNCHANGED mathRest

NextMath ==
    \/ \E a \in Matrices, b \in Matrices : Multiply(a, b)
    \/ \E p \in ComposePositions, r \in Rotations, sc \in Scales : Compose(p, r, sc)

SpecMath == Init /\ [][NextMath]_vars

\* C30: the matrix mat4Multiply(a, b) returns takes every point p to where a
\* takes the point b takes p to, whenever neither step divides by zero.
C30_MultiplyIsProduct ==
    calc.op = "mat4Multiply" =>
        \A p \in Points :
            (wOf(calc.b, p).n # 0 /\ wOf(calc.a, mat4TransformPoint(calc.b, p)).n # 0) =>
                mat4TransformPoint(calc.out, p) =
                    mat4TransformPoint(calc.a, mat4TransformPoint(calc.b, p))

\* a quarter turn after a translation was multiplied with a translation:
\* the two orders differ, and the product moves (1,2,3) as b then a do
C30_Witness ==
    /\ calc.op = "mat4Multiply"
    /\ calc.a = mat4Compose(<<1, 0, 0>>, <<0, 0, 1>>, UnitScale)
    /\ calc.b = mat4Compose(<<0, 2, 0>>, NoRotation, UnitScale)
    /\ calc.out # mat4Multiply(calc.b, calc.a)
    /\ mat4TransformPoint(calc.out, <<Whole(1), Whole(2), Whole(3)>>)
           = <<Whole(-3), Whole(1), Whole(3)>>

\* C31: composing a position with no rotation and unit scale gives the pure
\* translation by that position: what mat4Translation returns for it.
C31_ComposeIsTranslation ==
    (calc.op = "mat4Compose" /\ calc.rotation = NoRotation /\ calc.scale = UnitScale) =>
        /\ calc.out = mat4Translation(calc.position[1], calc.position[2], calc.position[3])
        /\ \A i \in 0..15 :
              calc.out[i] = CASE i \in {0, 5, 10, 15} -> 1
                              [] i \in {12, 13, 14} -> calc.position[i - 11]
                              [] OTHER -> 0

C31_Witness ==
    /\ calc.op = "mat4Compose" /\ calc.rotation = NoRotation /\ calc.scale = UnitScale
    /\ calc.position = <<-1, 3, 2>>
    /\ calc.out[12] = -1 /\ calc.out[13] = 3 /\ calc.out[14] = 2

\* view holds the entries of reg in ascending priority, those of equal
\* priority in the order they have in reg
StableSorted(view, reg) ==
    /\ Len(view) = Len(reg)
    /\ \A k \in 1..Len(reg) : \E i \in 1..Len(view) : view[i] = reg[k]
    /\ \A i, j \in 1..Len(view) : i < j => Before(reg, view[i].id, view[j].id)

\* a step of destroy(): it empties the registry and the view together
DestroyStep ==
    renderCallbacks' = <<>> /\ sortedCallbacks' = <<>> /\ device' = "null" /\ ~ready'

\* what the steps do to the view: a step that changes the registry, destroy()
\* apart, leaves the view alone and sets needsSort; a call that starts with
\* needsSort false walks the view as it was
LazySteps ==
    /\ (renderCallbacks' # renderCallbacks /\ ~DestroyStep)
           => (sortedCallbacks' = sortedCallbacks /\ needsSort')
    /\ (pc = "idle" /\ pc' = "iterate" /\ ~needsSort)
           => (iter' = sortedCallbacks /\ sortedCallbacks' = sortedCallbacks)

\* C32: addRenderCallback and removeRenderCallback change the registry and
\* set needsSort without touching the sorted view; whenever needsSort is
\* false the view is the stable ascending-priority ordering of the registry;
\* and an executeRenderCallbacks call that finds needsSort false walks the
\* view the call before it left.
C32_LazyResort ==
    /\ [](~needsSort => StableSorted(sortedCallbacks, renderCallbacks))
    /\ [][LazySteps]_vars

\* a second call walks two callbacks registered as [200, 100] in the order
\* the first call sorted them in, nothing having been registered in between
C32_Witness ==
    /\ pc = "iterate" /\ ~needsSort /\ frame.frameCount = 2
    /\ PrioritySeq(renderCallbacks) = <<TRANSPARENT, OPAQUE>>
    /\ PrioritySeq(sortedCallbacks) = <<OPAQUE, TRANSPARENT>>
    /\ iter = sortedCallbacks /\ callStart.symbolCount = 2 /\ symbolCount = 2

\* C37: on the bare container, whatever the order of setDevice, setError and
\* destroy, ready is true only while a device is set, and setError leaves
\* ready false and the error stored.
C37_ReadyImpliesDevice ==
    /\ ready => device = "device"
    /\ last.op = "setError" => (~ready /\ error = "error")

\* setError on a container whose device is set
C37_Witness ==
    last.op = "setError" /\ device = "device" /\ gpu = "live" /\ ~ready /\ error = "error"

\* C34: while the Canvas is mounted with its device set and ready, a render()
\* that began has requested the next animation frame by the time it is left,
\* whatever the render callbacks and onframe did: between two render() calls
\* a frame is always requested.
C34_TickReschedules ==
    (mounted /\ device = "device" /\ ready /\ pc = "idle") => rafPending

\* =========================================================================
\* The tokens of addRenderCallback
\* =========================================================================
\* the closures handed to addRenderCallback
Closures == {1, 2}

ownerRest == <<frameVars, sortedCallbacks, poolIndex, canvasVars, rafPending,
               tickVars, lights, gpu, poolVars, texVars, groupVars, uiVars, sceneVars, calc,
               boot>>

regRest == <<deviceVars, ownerRest, comp>>

\* addRenderCallback(callback, priority): the token returned is the id of the
\* entry pushed
Register(f, p) ==
    /\ Len(renderCallbacks) < MaxCallbacks /\ symbolCount < MaxSymbols
    /\ LET a == addRenderCallback(renderCallbacks, needsSort, symbolCount, p)
           id == a.renderCallbacks[Len(a.renderCallbacks)].id IN
        /\ renderCallbacks' = a.renderCallbacks
        /\ needsSort' = a.needsSort
        /\ symbolCount' = a.symbolCount
        /\ issued' = Append(issued, [token |-> id, closure |-> f])
        /\ last' = Op("addRenderCallback", [id |-> id, before |-> renderCallbacks], TRUE)
    /\ UNCHANGED regRest

\* removeRenderCallback(id) with a token that was returned, or with a Symbol
\* that never was (0)
Unregister(id) ==
    /\ LET r == removeRenderCallback(renderCallbacks, needsSort, id) IN
        /\ renderCallbacks' = r.renderCallbacks
        /\ needsSort' = r.needsSort
        /\ last' = Op("removeRenderCallback", [id |-> id, before |-> renderCallbacks],
                      id \in Ids(renderCallbacks))
    /\ UNCHANGED <<symbolCount, issued, regRest>>

NextRegistry ==
    \/ \E f \in Closures, p \in Priorities : Register(f, p)
    \/ \E id \in {0} \cup {issued[i].token : i \in 1..Len(issued)} : Unregister(id)

SpecRegistry == Init /\ [][NextRegistry]_vars

\* the entries of reg other than the one with this id, in the order they have
Without(reg, id) == SelectSeq(reg, LAMBDA e : e.id # id)

\* C33: the token an addRenderCallback call returns differs from every token
\* returned before, whatever closure is registered; removeRenderCallback with
\* a token removes the one entry that call pushed and leaves the other
\* entries, their order in the registry and the order they run in as they
\* were.
C33_TokensAndRemoval ==
    /\ \A i, j \in 1..Len(issued) : i < j => issued[i].token # issued[j].token
    /\ last.op = "addRenderCallback" =>
          /\ last.arg.id \notin Ids(last.arg.before)
          /\ renderCallbacks[Len(renderCallbacks)].id = last.arg.id
          /\ SubSeq(renderCallbacks, 1, Len(renderCallbacks) - 1) = last.arg.before
    /\ (last.op = "removeRenderCallback" /\ last.hit) =>
          /\ Len(renderCallbacks) = Len(last.arg.before) - 1
          /\ renderCallbacks = Without(last.arg.before, last.arg.id)
          /\ sortCallbacks(renderCallbacks)
                 = Without(sortCallbacks(last.arg.before), last.arg.id)

\* one closure was registered three times and the second of its entries was
\* unregistered: the first and the third are left
C33_Witness ==
    /\ Len(issued) = 3 /\ \A i \in 1..3 : issued[i].closure = 1
    /\ last.op = "removeRenderCallback" /\ last.hit /\ last.arg.id = issued[2].token
    /\ IdSeq(renderCallbacks) = <<issued[1].token, issued[3].token>>

\* =========================================================================
\* The components and hooks that own a render callback
\* =========================================================================
\* what the owner of position o registered: the entries of the registry whose
\* token was returned to o
Mine(o) ==
    {i \in 1..Len(renderCallbacks) :
        \E k \in 1..Len(issued) :
            issued[k].token = renderCallbacks[i].id /\ issued[k].closure = o}

\* variant: the effect registers again without removing what it held
reregisterKeepsOld(reg, ns, sc, id, p) == addRenderCallback(reg, ns, sc, p)

\* Mesh's $effect body: removeRenderCallback(callbackId), then
\* addRenderCallback(renderCallback, renderOrder)
reregister(reg, ns, sc, id, p) ==
    LET r == removeRenderCallback(reg, ns, id) IN
    addRenderCallback(r.renderCallbacks, r.needsSort, sc, p)

\* onMount of a Mesh, Model or InstancedMesh (kind "Model" stands for both:
\* their registration code is the same) returns before registering when the
\* container has no device; RenderLoop registers at OPAQUE, useRender and
\* useFrameCallback (kind "useRender") register whatever the device is
OwnerMount(o, kind, p) ==
    /\ comp[o].phase = "absent"
    /\ kind = "RenderLoop" => p = OPAQUE
    /\ IF kind \in {"Mesh", "Model"} /\ device = "null"
       THEN /\ comp' = [comp EXCEPT ![o] = [kind |-> kind, phase |-> "mounted",
                                            callbackId |-> 0, renderOrder |-> p]]
            /\ last' = Op("onMount", o, FALSE)
            /\ UNCHANGED <<schedVars, issued>>
       ELSE /\ Len(renderCallbacks) < MaxCallbacks /\ symbolCount < MaxSymbols
            /\ LET a == addRenderCallback(renderCallbacks, needsSort, symbolCount, p)
                   id == a.renderCallbacks[Len(a.renderCallbacks)].id IN
                /\ renderCallbacks' = a.renderCallbacks
                /\ needsSort' = a.needsSort
                /\ symbolCount' = a.symbolCount
                /\ issued' = Append(issued, [token |-> id, closure |-> o])
                /\ comp' = [comp EXCEPT ![o] = [kind |-> kind, phase |-> "mounted",
                                                callbackId |-> id, renderOrder |-> p]]
            /\ last' = Op("onMount", o, TRUE)
            /\ UNCHANGED sortedCallbacks
    /\ UNCHANGED <<deviceVars, ownerRest>>

\* the renderOrder prop of a mounted Mesh becomes p and its $effect runs (the
\* effect may also run again with the renderOrder it had): with a callbackId
\* it removes the entry and registers again, without one it does nothing
MeshEffect(o, p) ==
    /\ comp[o].phase = "mounted" /\ comp[o].kind = "Mesh"
    /\ IF comp[o].callbackId # 0
       THEN /\ symbolCount < MaxSymbols
            /\ LET a == reregister(renderCallbacks, needsSort, symbolCount,
                                   comp[o].callbackId, p)
                   id == a.renderCallbacks[Len(a.renderCallbacks)].id IN
                /\ Len(a.renderCallbacks) <= MaxCallbacks
                /\ renderCallbacks' = a.renderCallbacks
                /\ needsSort' = a.needsSort
                /\ symbolCount' = a.symbolCount
                /\ issued' = Append(issued, [token |-> id, closure |-> o])
                /\ comp' = [comp EXCEPT ![o].callbackId = id, ![o].renderOrder = p]
            /\ last' = Op("effect", o, TRUE)
            /\ UNCHANGED sortedCallbacks
       ELSE /\ comp' = [comp EXCEPT ![o].renderOrder = p]
            /\ last' = Op("effect", o, FALSE)
            /\ UNCHANGED <<schedVars, issued>>
    /\ UNCHANGED <<deviceVars, ownerRest>>

\* the unregister() that useRender returns: removes the entry if there is a
\* callbackId, which becomes null
UseRenderUnregister(o) ==
    /\ comp[o].phase = "mounted" /\ comp[o].kind = "useRender"
    /\ LET r == IF comp[o].callbackId # 0
                THEN removeRenderCallback(renderCallbacks, needsSort, comp[o].callbackId)
                ELSE [renderCallbacks |-> renderCallbacks, needsSort |-> needsSort] IN
        /\ renderCallbacks' = r.renderCallbacks
        /\ needsSort' = r.needsSort
    /\ comp' = [comp EXCEPT ![o].callbackId = 0]
    /\ last' = Op("unregister", o, comp[o].callbackId # 0)
    /\ UNCHANGED <<sortedCallbacks, symbolCount, issued, deviceVars, ownerRest>>

\* onDestroy of an owner: removes the entry if there is a callbackId
OwnerDestroy(o) ==
    /\ comp[o].phase = "mounted"
    /\ LET r == IF comp[o].callbackId # 0
                THEN removeRenderCallback(renderCallbacks, needsSort, comp[o].callbackId)
                ELSE [renderCallbacks |-> renderCallbacks, needsSort |-> needsSort] IN
        /\ renderCallbacks' = r.renderCallbacks
        /\ needsSort' = r.needsSort
    /\ comp' = [comp EXCEPT ![o].phase = "destroyed"]
    /\ last' = Op("onDestroy", o, comp[o].callbackId # 0)
    /\ UNCHANGED <<sortedCallbacks, symbolCount, issued, deviceVars, ownerRest>>

NextOwners ==
    \/ SetDevice
    \/ Destroy
    \/ \E o \in OwnerIds, kind \in OwnerKinds, p \in Priorities : OwnerMount(o, kind, p)
    \/ \E o \in OwnerIds, p \in Priorities : MeshEffect(o, p)
    \/ \E o \in OwnerIds : UseRenderUnregister(o)
    \/ \E o \in OwnerIds : OwnerDestroy(o)

SpecOwners == Init /\ [][NextOwners]_vars

\* C38: each Mesh, Model, InstancedMesh, RenderLoop, useRender or
\* useFrameCallback owner has at most one of its callbacks in the registry at
\* any time, a Mesh whose renderOrder changed has exactly the one it
\* registered again, with the new renderOrder as priority, and an owner that
\* is not mounted (not yet, or destroyed) has none.
C38_OneCallbackPerOwner ==
    \A o \in OwnerIds :
        /\ Cardinality(Mine(o)) <= 1
        /\ comp[o].phase # "mounted" => Mine(o) = {}
        /\ \A i \in Mine(o) :
              /\ renderCallbacks[i].id = comp[o].callbackId
              /\ renderCallbacks[i].priority = comp[o].renderOrder
        /\ (last.op = "effect" /\ last.arg = o /\ last.hit) => Cardinality(Mine(o)) = 1

\* a Mesh registered at OPAQUE beside a useRender callback, its renderOrder
\* became TRANSPARENT and the effect registered it again: the registry holds
\* the hook's entry and the Mesh's new one
C38_Witness ==
    /\ last.op = "effect" /\ last.hit /\ last.arg = 1
    /\ comp[1].kind = "Mesh" /\ comp[1].renderOrder = TRANSPARENT
    /\ comp[2].kind = "useRender" /\ comp[2].phase = "mounted"
    /\ Len(issued) = 3 /\ issued[1].closure = 1 /\ issued[3].closure = 1
    /\ renderCallbacks = <<[id |-> issued[2].token, priority |-> OPAQUE],
                           [id |-> issued[3].token, priority |-> TRANSPARENT]>>

\* =========================================================================
\* Canvas onMount: device creation and its failure
\* =========================================================================
\* variant: with backend 'best' a WebGPU failure rejects, as with 'webgpu'
createDeviceInternalNoFallback(backend, gpuOk, glOk) ==
    IF backend \in {"webgpu", "best"}
    THEN [tried |-> <<"webgpu">>, resolved |-> gpuOk]
    ELSE [tried |-> <<"webgl2">>, resolved |-> glOk]

\* createDeviceInternal(canvasEl, backend), where webgpuAdapter.create
\* succeeds iff gpuOk and webgl2Adapter.create iff glOk: the adapters whose
\* create was called, in order, and whether the promise resolved
createDeviceInternal(backend, gpuOk, glOk) ==
    IF backend \in {"webgpu", "best"}
    THEN IF gpuOk THEN [tried |-> <<"webgpu">>, resolved |-> TRUE]
         ELSE IF backend = "webgpu" THEN [tried |-> <<"webgpu">>, resolved |-> FALSE]
         ELSE [tried |-> <<"webgpu", "webgl2">>, resolved |-> glOk]
    ELSE [tried |-> <<"webgl2">>, resolved |-> glOk]

bootRest == <<mounted, frameVars, schedVars, poolIndex, tickVars, lights, poolVars, texVars,
              groupVars, mouse, sceneVars, calc, issued, comp>>

\* onMount up to its await: the canvas is sized and createDeviceInternal is
\* called with the backend prop
CanvasMount(backend, hasOnerror) ==
    /\ mounted /\ boot.phase = "new"
    /\ boot' = [boot EXCEPT !.phase = "creating", !.backend = backend,
                            !.hasOnerror = hasOnerror]
    /\ UNCHANGED <<deviceVars, creating, rafPending, last, gpu, viewport, bootRest>>

\* the rest of onMount once createDeviceInternal has settled. Resolved:
\* setDevice, setViewport with the width and height props at their defaults,
\* ondevicecreated, requestAnimationFrame(render); rejected, or ondevicecreated
\* threw: the catch block runs setError and onerror
CreateSettled(gpuOk, glOk, handlerThrows) ==
    /\ pc = "idle" /\ boot.phase = "creating"
    /\ LET c == createDeviceInternal(boot.backend, gpuOk, glOk)
           caught == ~c.resolved \/ handlerThrows IN
        /\ device' = IF c.resolved THEN "device" ELSE device
        /\ gpu' = IF c.resolved THEN "live" ELSE gpu
        /\ viewport' = IF c.resolved THEN setViewport(800, 600) ELSE viewport
        /\ ready' = ~caught
        /\ error' = IF caught THEN "error" ELSE error
        /\ rafPending' = IF caught THEN rafPending ELSE TRUE
        /\ boot' = [boot EXCEPT
                       !.phase = "done", !.tried = c.tried,
                       !.outcome = IF ~c.resolved THEN "failed"
                                   ELSE IF handlerThrows THEN "handlerThrew"
                                   ELSE "created",
                       !.onerrorCalls = IF caught /\ boot.hasOnerror THEN @ + 1 ELSE @,
                       !.children = ~caught /\ mounted]
        /\ last' = IF caught THEN Op("setError", 0, c.resolved) ELSE Op("setDevice", 0, TRUE)
    /\ creating' = FALSE
    /\ UNCHANGED bootRest

NextCanvasInit ==
    \/ \E backend \in Backends, hasOnerror \in BOOLEAN : CanvasMount(backend, hasOnerror)
    \/ \E gpuOk, glOk, handlerThrows \in BOOLEAN : CreateSettled(gpuOk, glOk, handlerThrows)
    \/ OnDestroy
    \/ \E p \in Priorities : AddRenderCallback(p)
    \/ \E t \in Times, clear \in BOOLEAN : RenderBegin(t, clear)
    \/ InvokePlain
    \/ \E hasOnframe \in BOOLEAN : RenderEnd(hasOnframe)
    \/ Return

SpecCanvasInit == Init /\ [][NextCanvasInit]_vars

\* C39: once createDeviceInternal has rejected, the container has ready =
\* false, no device and the error stored, onerror was called exactly once (if
\* the prop is there), no frame was requested or rendered and the children
\* block was never rendered. With backend 'best' a WebGPU failure is followed
\* by a WebGL2 attempt, whose success is the device; with backend 'webgpu'
\* WebGL2 is never tried and a WebGPU failure is the failure.
C39_CreationFailure ==
    /\ boot.outcome = "failed" =>
          /\ ~ready /\ device = "null" /\ error = "error"
          /\ boot.onerrorCalls = (IF boot.hasOnerror THEN 1 ELSE 0)
          /\ ~rafPending /\ ticks = 0 /\ frame.frameCount = 0 /\ pc = "idle"
          /\ ~boot.children /\ renderCallbacks = <<>>
    /\ (boot.phase = "done" /\ boot.backend = "best") =>
          /\ boot.tried \in {<<"webgpu">>, <<"webgpu", "webgl2">>}
          /\ boot.outcome = "failed" => boot.tried = <<"webgpu", "webgl2">>
    /\ (boot.phase = "done" /\ boot.backend = "webgpu") => boot.tried = <<"webgpu">>
    /\ (boot.phase = "done" /\ boot.backend = "webgl") => boot.tried = <<"webgl2">>

\* backend 'best', WebGPU and then WebGL2 failed: the error is stored and
\* onerror was called
C39_Witness ==
    /\ boot.outcome = "failed" /\ boot.backend = "best" /\ boot.hasOnerror
    /\ boot.tried = <<"webgpu", "webgl2">> /\ boot.onerrorCalls = 1
    /\ mounted /\ ~ready /\ error = "error"

====
